---- MODULE Spec2Model ----
(***************************************************************************)
(* Model of the historical-candle download engine of binance-history:     *)
(* the range computation of the download processor (both processor        *)
(* sources), the job record life cycle of QueueService, the page loop of  *)
(* BinanceService.getHistoricalData and the upserts of HistoryService.    *)
(*                                                                         *)
(* Time is counted in ticks. One tick stands for one millisecond of the   *)
(* code (the "+ 1" / "- 1" of the sources); a candle interval is Interval *)
(* ticks and candles open on multiples of Interval.                       *)
(***************************************************************************)
EXTENDS Integers, Sequences, FiniteSets, TLC

VARIABLES
    registered, \* the DownloadProcessor source registered: "subranges" or "gaps"
    jobs,      \* the DownloadJob collection: job id -> record
    calls,     \* createDownloadJob calls, each between its awaits
    cancels,   \* cancelJob calls, each between its awaits
    queue,     \* the Bull queue: ids of the jobs waiting for a worker
    wk,        \* handleDownload activations: job id -> locals and position
    inflight,  \* updateJobProgress writes issued and not awaited
    candleModel, \* open times of the stored candles of the pair
    extent,    \* timeframes[tf] of the Symbol document
    emitted,   \* per job: the last event published, with the last progress
    stats,     \* per job: upstream kline requests and saveCandles calls so far
    rin,       \* range computation: the inputs of one computation
    rout,      \* range computation: the ranges returned, or NotComputed
    sv,        \* saveCandles runs: the rows, the input and the results so far
    binance,   \* BinanceService: the clock, the weight counter and its window
    fetchers,  \* range fetches in progress: position in getKlines and its retries
    hd,        \* one getHistoricalData call: its locals and what it has done
    sb         \* one saveCandles call with failing writes: batch, attempt, rows

fvars == <<binance, fetchers>>

vars == <<registered, jobs, calls, cancels, queue, wk, inflight, candleModel,
          extent, emitted, stats, rin, rout, sv, fvars, hd, sb>>

----------------------------------------------------------------------------
(* Bounds and program constants *)

Interval == 2        \* getIntervalInMs, in ticks
Day == 6 * Interval  \* 24 * 60 * 60 * 1000 for the 4h timeframe (6 candles a day)
MaxTime == 6         \* latest instant a candle is stored at or a request names
MaxNowDelta == 10    \* Date.now() ranges over MaxTime .. MaxTime + MaxNowDelta

NULL == -1           \* a null Date
NoExtent == [none |-> TRUE]   \* getDataRange returned null
NotComputed == [computed |-> FALSE, ranges |-> <<>>]

Times == 1..MaxTime
Slots == {t \in Times : t % Interval = 0}
Nows == MaxTime..(MaxTime + MaxNowDelta)

Max(a, b) == IF a >= b THEN a ELSE b
Min(a, b) == IF a <= b THEN a ELSE b
SetMin(s) == CHOOSE m \in s : \A x \in s : m <= x
SetMax(s) == CHOOSE m \in s : \A x \in s : m >= x

RECURSIVE SortedSeq(_)
\* .sort({ openTime: 1 }): the members of s in ascending order
SortedSeq(s) == IF s = {} THEN <<>>
                ELSE <<SetMin(s)>> \o SortedSeq(s \ {SetMin(s)})

\* Math.ceil(a / b), b > 0
CeilDiv(a, b) == -((-a) \div b)

\* x || y on numbers: 0 is falsy
OrElse(x, y) == IF x = NULL \/ x = 0 THEN y ELSE x

----------------------------------------------------------------------------
(* HistoryService.getDataRange: the extent record of the pair, as stored *)

ExtentOf(stored) ==
    IF stored = {} THEN [earliestData |-> NULL, latestData |-> NULL]
    ELSE [earliestData |-> SetMin(stored), latestData |-> SetMax(stored)]

----------------------------------------------------------------------------
(* download.processor.ts: the subranges of handleDownload *)

Subranges(requestedStart, requestedEnd, existingRange) ==
    LET existingStart == IF existingRange = NoExtent THEN NULL
                         ELSE existingRange.earliestData
        existingEnd == IF existingRange = NoExtent THEN NULL
                       ELSE existingRange.latestData
        first == IF existingStart = NULL \/ requestedStart < existingStart
                 THEN <<[from |-> requestedStart,
                         to |-> IF existingStart # NULL THEN existingStart - 1
                                ELSE requestedEnd]>>
                 ELSE <<>>
        second == IF existingEnd = NULL \/ requestedEnd > existingEnd
                  THEN <<[from |-> IF existingEnd # NULL THEN existingEnd + 1
                                   ELSE requestedStart,
                          to |-> requestedEnd]>>
                  ELSE <<>>
    IN first \o second

----------------------------------------------------------------------------
(* HistoryService.checkDataGaps over the stored open times *)

RECURSIVE BetweenGaps(_, _)
\* the loop over adjacent candles, from index i on
BetweenGaps(candles, i) ==
    IF i >= Len(candles) THEN <<>>
    ELSE LET currentTime == candles[i]
             nextTime == candles[i + 1]
             expectedNextTime == currentTime + Interval
         IN (IF nextTime > expectedNextTime + Interval
             THEN <<[start |-> expectedNextTime, end |-> nextTime - Interval]>>
             ELSE <<>>) \o BetweenGaps(candles, i + 1)

CheckDataGaps(stored, days, now) ==
    LET checkFromDate == now - days * Day
        candles == SortedSeq({t \in stored : t >= checkFromDate})
    IN IF Len(candles) = 0
       THEN [hasGaps |-> TRUE,
             missingRanges |-> <<[start |-> checkFromDate, end |-> now]>>]
       ELSE LET leading == IF candles[1] > checkFromDate + Interval
                           THEN <<[start |-> checkFromDate,
                                   end |-> candles[1] - Interval]>>
                           ELSE <<>>
                lastCandleTime == candles[Len(candles)]
                expectedLastTime == now - (now % Interval)
                trailing == IF lastCandleTime < expectedLastTime - Interval
                            THEN <<[start |-> lastCandleTime + Interval,
                                    end |-> expectedLastTime]>>
                            ELSE <<>>
                missingRanges == leading \o BetweenGaps(candles, 1) \o trailing
            IN [hasGaps |-> Len(missingRanges) > 0, missingRanges |-> missingRanges]

----------------------------------------------------------------------------
(* The gap-aware processor: findGapsInRange and calculateDownloadRanges *)

RECURSIVE FilterClip(_, _, _)
\* .filter(gapEnd >= startTime && gapStart <= endTime).map(clip)
FilterClip(gaps, startTime, endTime) ==
    IF gaps = <<>> THEN <<>>
    ELSE LET gap == Head(gaps)
         IN (IF gap.end >= startTime /\ gap.start <= endTime
             THEN <<[start |-> Max(gap.start, startTime),
                     end |-> Min(gap.end, endTime)]>>
             ELSE <<>>) \o FilterClip(Tail(gaps), startTime, endTime)

FindGapsInRange(stored, startTime, endTime, now) ==
    IF startTime >= endTime THEN <<>>
    ELSE LET daysDiff == CeilDiv(endTime - startTime, Day)
             gapCheck == CheckDataGaps(stored, daysDiff, now)
         IN IF ~gapCheck.hasGaps THEN <<>>
            ELSE FilterClip(gapCheck.missingRanges, startTime, endTime)

\* a sample check that looks for a candle at requestedStart only
SampleCheckEmptyAtStart(stored, requestedStart) == requestedStart \notin stored

\* getCandles({startTime, endTime: startTime + interval, limit: 1}).data.length = 0
SampleCheckEmpty(stored, requestedStart) ==
    {t \in stored : t >= requestedStart /\ t <= requestedStart + Interval} = {}

\* a "before" range that runs up to the earliest stored candle itself
EndForEarlierAtEarliest(earliestData) == earliestData

\* endForEarlier: the "before" range stops one interval before the earliest candle
EndForEarlier(earliestData) == earliestData - Interval

\* startForLater: the "after" range starts one interval after the latest candle
StartForLater(latestData) == latestData + Interval

RECURSIVE Tagged(_, _)
Tagged(gaps, type) ==
    IF gaps = <<>> THEN <<>>
    ELSE <<[start |-> Head(gaps).start, end |-> Head(gaps).end, type |-> type]>>
         \o Tagged(Tail(gaps), type)

CalculateDownloadRanges(requestedStart, requestedEnd, existingRange, stored, now) ==
    IF existingRange = NoExtent
       \/ (existingRange.earliestData = NULL /\ existingRange.latestData = NULL)
    THEN <<[start |-> requestedStart, end |-> requestedEnd, type |-> "before"]>>
    ELSE LET earliestData == existingRange.earliestData
             latestData == existingRange.latestData
             before == IF earliestData # NULL /\ requestedStart < earliestData
                       THEN <<[start |-> requestedStart,
                               end |-> EndForEarlier(earliestData),
                               type |-> "before"]>>
                       ELSE <<>>
             overlapStart == Max(requestedStart, OrElse(earliestData, 0))
             overlapEnd == Min(requestedEnd, OrElse(latestData, now))
             gapsInRange == IF overlapStart < overlapEnd
                               /\ earliestData # NULL /\ latestData # NULL
                            THEN FindGapsInRange(stored, overlapStart, overlapEnd, now)
                            ELSE <<>>
             after == IF latestData # NULL /\ requestedEnd > latestData
                      THEN <<[start |-> StartForLater(latestData),
                              end |-> requestedEnd,
                              type |-> "after"]>>
                      ELSE <<>>
             ranges == before \o Tagged(gapsInRange, "gap") \o after
         IN IF earliestData # NULL /\ latestData # NULL
               /\ requestedStart >= earliestData /\ requestedEnd <= latestData
               /\ Len(ranges) = 0
            THEN IF SampleCheckEmpty(stored, requestedStart)
                 THEN <<[start |-> requestedStart, end |-> requestedEnd,
                         type |-> "gap"]>>
                 ELSE <<>>
            ELSE ranges

----------------------------------------------------------------------------
(* The job's range computation, as [start, end] pairs, for either processor *)

RECURSIVE FromTo(_)
FromTo(subranges) ==
    IF subranges = <<>> THEN <<>>
    ELSE <<[start |-> Head(subranges).from, end |-> Head(subranges).to]>>
         \o FromTo(Tail(subranges))

RECURSIVE StartEnd(_)
StartEnd(ranges) ==
    IF ranges = <<>> THEN <<>>
    ELSE <<[start |-> Head(ranges).start, end |-> Head(ranges).end]>>
         \o StartEnd(Tail(ranges))

Processors == {"subranges", "gaps"}

JobRanges(processor, requestedStart, requestedEnd, existingRange, stored, now) ==
    IF processor = "subranges"
    THEN FromTo(Subranges(requestedStart, requestedEnd, existingRange))
    ELSE StartEnd(CalculateDownloadRanges(requestedStart, requestedEnd,
                                          existingRange, stored, now))

----------------------------------------------------------------------------
(* Bounds of the job model *)

MaxJobs == 2        \* DownloadJob records (and createDownloadJob calls)
PageLimit == 2      \* batchSize of getHistoricalData (1500), scaled
MaxRateLimits == 1  \* first requests of a job that may get HTTP 429 (caps the loop)
MaxDeliveries == 2  \* deliveries the queue makes in all (at-least-once)
MaxCancels == 1     \* cancelJob calls made in all

JobIds == 1..MaxJobs
Windows == {w \in Slots \X Slots : w[1] < w[2]}

SeqSet(q) == {q[k] : k \in 1..Len(q)}

----------------------------------------------------------------------------
(* queue.service.ts: the DownloadJob schema and the record updates *)

NoJob == [status |-> "NONE", progress |-> 0, processedCandles |-> 0,
          totalCandles |-> 0, error |-> "", startDate |-> 0, endDate |-> 0]

\* new this.downloadJobModel({...createJobDto}): the schema defaults
NewJob(w) == [status |-> "PENDING", progress |-> 0, processedCandles |-> 0,
              totalCandles |-> 0, error |-> "", startDate |-> w[1], endDate |-> w[2]]

Active(job) == job.status \in {"PENDING", "RUNNING"}
Terminal(job) == job.status \in {"COMPLETED", "FAILED", "CANCELLED"}

\* a start mark that leaves the status as it was
MarkJobAsStartedKeepStatus(job) == job

MarkJobAsStarted(job) == [job EXCEPT !.status = "RUNNING"]

\* a failure mark that stores no error message
MarkJobAsFailedNoMessage(job, error) == [job EXCEPT !.status = "FAILED"]

\* a failure mark that also clears the progress fields
MarkJobAsFailedResetProgress(job, error) ==
    [job EXCEPT !.status = "FAILED", !.error = error, !.progress = 0,
                !.processedCandles = 0]

MarkJobAsFailed(job, error) == [job EXCEPT !.status = "FAILED", !.error = error]

\* a completion that forgets to force the progress to 100
MarkJobAsCompletedKeepProgress(job, totalCandles) ==
    [job EXCEPT !.status = "COMPLETED", !.totalCandles = totalCandles]

MarkJobAsCompleted(job, totalCandles) ==
    [job EXCEPT !.status = "COMPLETED", !.progress = 100,
                !.totalCandles = totalCandles]

UpdateJobProgress(job, progress, processedCandles) ==
    [job EXCEPT !.progress = progress, !.processedCandles = processedCandles]

----------------------------------------------------------------------------
(* BinanceService.getHistoricalData: pages and the progress of a range *)

\* Math.round(a / b), b > 0 (exact arithmetic in place of doubles)
RoundDiv(a, b) == (2 * a + b) \div (2 * b)

\* the upstream serves a candle at every open time of the model
UpstreamSlots == {t \in 1..(MaxTime + 2 * Interval) : t % Interval = 0}

\* GET /klines?startTime&endTime&limit: the first `limit` candles of the window
KlinesPage(startTime, endTime, limit) ==
    LET all == SortedSeq({t \in UpstreamSlots : startTime <= t /\ t <= endTime})
    IN SubSeq(all, 1, Min(limit, Len(all)))

\* kline[6]: closeTime of the candle opened at t
CloseTime(t) == t + Interval - 1

TotalEstimatedCandles(startTime, endTime) == CeilDiv(endTime - startTime, Interval)

\* Math.round(Math.min(100, (allKlines.length / totalEstimatedCandles) * 100))
RangeProgress(count, estimated) ==
    IF count >= estimated THEN 100 ELSE RoundDiv(100 * count, estimated)

----------------------------------------------------------------------------
(* BinanceService.getHistoricalData: one call against a drawn exchange *)

\* the open times of the candles the exchange holds for the symbol
Exchanges == SUBSET Slots

\* the start and end times a caller may pass
CallTimes == 1..(MaxTime + 1)

\* GET /klines?startTime&endTime&limit against an exchange holding `exchange`:
\* its first `limit` candles with startTime <= openTime <= endTime, ascending
KlinesPageOf(exchange, startTime, endTime, limit) ==
    LET all == SortedSeq({t \in exchange : startTime <= t /\ t <= endTime})
    IN SubSeq(all, 1, Min(limit, Len(all)))

\* a next start time that is the open time of the last candle of the page
NextStartTimeAtOpen(page) == page[Len(page)]

\* currentStartTime = lastKline.closeTime + 1
NextStartTime(page) == CloseTime(page[Len(page)]) + 1

NoHistoricalData ==
    [pc |-> "none", exchange |-> {}, startTime |-> 0, endTime |-> 0,
     currentStartTime |-> 0, allKlines |-> <<>>, pages |-> <<>>,
     onProgress |-> <<>>, limited |-> 0]

\* the locals of getHistoricalData before its loop
NewHistoricalData(exchange, startTime, endTime) ==
    [NoHistoricalData EXCEPT !.pc = "loop", !.exchange = exchange,
                             !.startTime = startTime, !.endTime = endTime,
                             !.currentStartTime = startTime]

----------------------------------------------------------------------------
(* The progress values of the two processors *)

RangeSize(range) == range.end - range.start

\* download.processor.ts: Math.round(accumulatedProgress); accumulated is
\* the sum of the sizes of the ranges done, total the requested duration
SubRangeStartProgress(accumulated, total) == RoundDiv(100 * accumulated, total)

\* Math.round(accumulatedProgress + (progress * rangeWeight) / 100)
SubPageProgress(accumulated, size, total, progress) ==
    RoundDiv(100 * accumulated + progress * size, total)

\* Math.round(accumulatedProgress + rangeWeight * 0.95)
SubSavingProgress(accumulated, size, total) ==
    RoundDiv(100 * accumulated + 95 * size, total)

\* gap-aware processor: Math.round(5 + rangeProgress * 85), rangeProgress = i / n
GapRangeStartProgress(i, n) == RoundDiv(5 * n + 85 * i, n)

\* Math.round(5 + (i / n + (percent / 100) * (1 / n)) * 85)
GapPageProgress(i, n, percent) ==
    RoundDiv(500 * n + 85 * (100 * i + percent), 100 * n)

----------------------------------------------------------------------------
(* HistoryService: upsert of a range and the extent update *)

\* bulkWrite of upserts keyed by openTime: the stored open times afterwards
SaveCandles(stored, klines) == stored \cup SeqSet(klines)

\* result.upsertedCount
NewRecords(stored, klines) == Cardinality(SeqSet(klines) \ stored)

\* updateSymbolMetadata(symbol, timeframe): aggregation over the stored rows
UpdateSymbolMetadataFull(ext, stored) ==
    IF stored = {} THEN ext
    ELSE [earliestData |-> SetMin(stored), latestData |-> SetMax(stored),
          totalCandles |-> Cardinality(stored)]

RecalcThreshold == 3   \* newCandlesCount > 10000, scaled

\* updateSymbolMetadata without the newCandlesCount > 10000 branch
UpdateSymbolMetadataNoRecalc(ext, stored, newCandlesCount) ==
    IF newCandlesCount = 0 THEN ext
    ELSE [earliestData |-> IF stored = {} THEN ext.earliestData ELSE SetMin(stored),
          latestData |-> IF stored = {} THEN ext.latestData ELSE SetMax(stored),
          totalCandles |-> ext.totalCandles + newCandlesCount]

\* updateSymbolMetadata(symbol, timeframe, newCandlesCount)
UpdateSymbolMetadata(ext, stored, newCandlesCount) ==
    IF newCandlesCount = 0 THEN ext
    ELSE IF newCandlesCount > RecalcThreshold
    THEN IF stored = {}
         THEN [earliestData |-> NULL, latestData |-> NULL, totalCandles |-> 0]
         ELSE [earliestData |-> SetMin(stored), latestData |-> SetMax(stored),
               totalCandles |-> Cardinality(stored)]
    ELSE [earliestData |-> IF stored = {} THEN ext.earliestData ELSE SetMin(stored),
          latestData |-> IF stored = {} THEN ext.latestData ELSE SetMax(stored),
          totalCandles |-> ext.totalCandles + newCandlesCount]

BatchSize == 2   \* BATCH_SIZE (5000), scaled
MaxKlines == 3   \* longest input of one saveCandles call
Prices == {1, 2} \* the values a candle of one open time may carry

\* a candle as saved: its key (openTime) and the rest of its fields (price)
Klines == [openTime : Slots, price : Prices]

\* the candles collection: openTime -> price on the open times stored; the
\* unique index on (symbol, timeframe, openTime) keeps one row per key
Rows == UNION {[keys -> Prices] : keys \in SUBSET Slots}

NoBatchResult == [newRecords |-> 0, updatedRecords |-> 0, totalProcessed |-> 0]

RECURSIVE BulkWrite(_, _, _, _)
\* bulkWrite of updateOne {filter: key, update: {$set: candle}, upsert: true}:
\* a missing key is inserted and counted in upsertedCount; a stored row is
\* counted in modifiedCount only when the $set changes it
BulkWrite(rows, ops, upsertedCount, modifiedCount) ==
    IF ops = <<>>
    THEN [rows |-> rows, upsertedCount |-> upsertedCount,
          modifiedCount |-> modifiedCount]
    ELSE LET c == Head(ops)
         IN IF c.openTime \notin DOMAIN rows
            THEN BulkWrite([k \in DOMAIN rows \cup {c.openTime} |->
                              IF k = c.openTime THEN c.price ELSE rows[k]],
                           Tail(ops), upsertedCount + 1, modifiedCount)
            ELSE IF rows[c.openTime] # c.price
            THEN BulkWrite([rows EXCEPT ![c.openTime] = c.price],
                           Tail(ops), upsertedCount, modifiedCount + 1)
            ELSE BulkWrite(rows, Tail(ops), upsertedCount, modifiedCount)

\* newRecords = result.upsertedCount, updatedRecords = result.modifiedCount
ProcessSingleBatch(rows, batch) ==
    LET result == BulkWrite(rows, batch, 0, 0)
        newRecords == result.upsertedCount
        updatedRecords == result.modifiedCount
    IN [rows |-> result.rows,
        result |-> [newRecords |-> newRecords, updatedRecords |-> updatedRecords,
                    totalProcessed |-> newRecords + updatedRecords]]

RECURSIVE SaveBatches(_, _, _)
\* the batch loop of saveCandles: slices of BATCH_SIZE, results accumulated
SaveBatches(rows, klines, total) ==
    IF klines = <<>> THEN [rows |-> rows, result |-> total]
    ELSE LET endIndex == Min(BatchSize, Len(klines))
             done == ProcessSingleBatch(rows, SubSeq(klines, 1, endIndex))
         IN SaveBatches(done.rows, SubSeq(klines, endIndex + 1, Len(klines)),
                        [newRecords |-> total.newRecords + done.result.newRecords,
                         updatedRecords |->
                             total.updatedRecords + done.result.updatedRecords,
                         totalProcessed |->
                             total.totalProcessed + done.result.totalProcessed])

\* saveCandles(symbol, timeframe, klines): the rows afterwards and the BatchResult
SaveCandlesBatched(rows, klines) == SaveBatches(rows, klines, NoBatchResult)

EmptyRows == [k \in {} |-> 1]

NoSave == [rows |-> EmptyRows, klines |-> <<>>, results |-> <<>>,
           rowsAfter |-> <<>>]

InitialExtent(stored) ==
    [earliestData |-> IF stored = {} THEN NULL ELSE SetMin(stored),
     latestData |-> IF stored = {} THEN NULL ELSE SetMax(stored),
     totalCandles |-> Cardinality(stored)]

----------------------------------------------------------------------------
(* HistoryService.saveCandles: the batch loop with processBatchWithRetry *)

SaveMaxRetries == 3   \* MAX_RETRIES

\* Math.ceil(totalCandles / BATCH_SIZE)
TotalBatches(klines) == CeilDiv(Len(klines), BatchSize)

\* klines.slice(startIndex, endIndex) of batch batchIndex (from 0)
BatchSlice(klines, batchIndex) ==
    SubSeq(klines, batchIndex * BatchSize + 1,
           Min(batchIndex * BatchSize + BatchSize, Len(klines)))

RECURSIVE Applied(_, _, _)
\* the operations of a batch that an unordered bulkWrite applied before it threw
Applied(batch, kept, k) ==
    IF k > Len(batch) THEN <<>>
    ELSE (IF k \in kept THEN <<batch[k]>> ELSE <<>>) \o Applied(batch, kept, k + 1)

\* a retry test that allows one attempt more
MayRetryOnceMore(attempt) == attempt <= SaveMaxRetries

\* attempt < this.MAX_RETRIES
MayRetry(attempt) == attempt < SaveMaxRetries

NoBatchedSave ==
    [pc |-> "none", rows |-> EmptyRows, klines |-> <<>>, batchIndex |-> 0,
     attempt |-> 0, attempts |-> <<>>, total |-> NoBatchResult]

\* saveCandles at the top of its loop, first batch, first attempt
NewBatchedSave(rows, klines) ==
    [NoBatchedSave EXCEPT !.pc = "batch", !.rows = rows, !.klines = klines,
                          !.attempt = 1, !.attempts = <<0>>]

----------------------------------------------------------------------------
(* BinanceService: the weight counter, getKlines and its retries *)

Window == 2             \* weightWindow (60000 ms), in clock ticks
RateLimitSleep == 2     \* sleep(60000) of getHistoricalData after a 429
BaseDelay == 1          \* baseDelay of makeRequestWithRetry, in clock ticks
MaxRetries == 3         \* maxRetries of makeRequestWithRetry
KlinesCost == 1         \* checkWeightLimit(1) in getKlines
DefaultWeightLimit == 2 \* BINANCE_WEIGHT_LIMIT when the model does not draw it
MaxWeightLimit == 2     \* largest configured weight limit drawn
MaxUsed == 3            \* largest x-mbx-used-weight-1m value a response carries
MaxClock == 7           \* last clock tick
MaxFetchers == 2        \* range fetches sharing the one BinanceService
MaxPages == 1           \* pages a range fetch asks for

Fetchers == 1..MaxFetchers
WeightLimits == 1..MaxWeightLimit
UsedWeightHeaders == {NULL} \cup (0..MaxUsed)
Upstreams == {"any", "always429"}

\* the service after its constructor: currentWeight = 0, weightResetTime = Date.now()
NewBinance(weightLimit, upstream) ==
    [now |-> 0, currentWeight |-> 0, weightResetTime |-> 0,
     weightLimit |-> weightLimit, upstream |-> upstream]

IdleFetcher == [pc |-> "idle", attempt |-> 0, wakeAt |-> 0, pages |-> 0,
                calls |-> 0, requests |-> 0, limitAtCall |-> FALSE,
                notBefore |-> 0, admitted |-> 0, error |-> "none"]

\* a window test that lets the window run one tick longer
WindowExpiredLate(now, weightResetTime) == now - weightResetTime > Window

\* now - this.weightResetTime >= this.weightWindow
WindowExpired(now, weightResetTime) == now - weightResetTime >= Window

\* the reset both checkWeightLimit and updateWeightFromHeaders begin with
ResetIfExpired(b) ==
    IF WindowExpired(b.now, b.weightResetTime)
    THEN [b EXCEPT !.currentWeight = 0, !.weightResetTime = b.now]
    ELSE b

\* parseInt(response.headers['x-mbx-used-weight-1m'] || '0')
UsedWeight(header) == IF header = NULL THEN 0 ELSE header

\* an observation that keeps the larger of the local and the reported value
UpdateWeightFromHeadersKeepMax(b, header) ==
    LET r == ResetIfExpired(b)
    IN [r EXCEPT !.currentWeight = Max(@, UsedWeight(header))]

\* updateWeightFromHeaders(response)
UpdateWeightFromHeaders(b, header) ==
    [ResetIfExpired(b) EXCEPT !.currentWeight = UsedWeight(header)]

\* this.currentWeight + requiredWeight >= this.weightLimit
MustWait(b, requiredWeight) == b.currentWeight + requiredWeight >= b.weightLimit

\* a wait that ends at once
WaitTimeNone(b) == 0

\* waitTime = this.weightWindow - (now - this.weightResetTime)
WaitTime(b) == Window - (b.now - b.weightResetTime)

\* 2 ^ attempt
Pow2(n) == IF n = 0 THEN 1 ELSE IF n = 1 THEN 2 ELSE IF n = 2 THEN 4 ELSE 8

\* baseDelay * Math.pow(2, attempt)
RetryDelay(attempt) == BaseDelay * Pow2(attempt)

----------------------------------------------------------------------------
(* State of the job model *)

IdleCall == [pc |-> "idle", window |-> <<0, 0>>]

IdleCancel == [pc |-> "idle", atBoundary |-> FALSE, requests |-> 0,
               stored |-> {}]

IdleWorker == [pc |-> "idle", run |-> 0, ranges |-> <<>>, i |-> 0,
               accumulated |-> 0, cur |-> 0, klines |-> <<>>,
               totalCandles |-> 0, allKlines |-> <<>>]

\* handleDownload has returned: its locals are gone
Finished(run) == [IdleWorker EXCEPT !.pc = "done", !.run = run]

NoStats == [requests |-> 0, saves |-> 0]

Event(run, status, progress, processedCandles) ==
    [run |-> run, status |-> status, progress |-> progress,
     processedCandles |-> processedCandles]

NoEvent == Event(0, "none", NULL, NULL)

RECURSIVE Publish(_, _)
\* the last event published for a job after `events`; an event that carries
\* no progress (job-failed) leaves the last progress published in place
Publish(last, events) ==
    IF events = <<>> THEN last
    ELSE LET e == Head(events)
             keep == e.progress = NULL /\ e.run = last.run
         IN Publish([run |-> e.run, status |-> e.status,
                     progress |-> IF keep THEN last.progress ELSE e.progress,
                     processedCandles |-> IF keep THEN last.processedCandles
                                          ELSE e.processedCandles],
                    Tail(events))

Init ==
    /\ registered \in Processors
    /\ jobs = [j \in JobIds |-> NoJob]
    /\ calls = [c \in JobIds |-> IdleCall]
    /\ cancels = [j \in JobIds |-> IdleCancel]
    /\ queue = {}
    /\ wk = [j \in JobIds |-> IdleWorker]
    /\ inflight = [j \in JobIds |-> {}]
    /\ candleModel \in SUBSET Slots
    /\ extent = InitialExtent(candleModel)
    /\ emitted = [j \in JobIds |-> NoEvent]
    /\ stats = [j \in JobIds |-> NoStats]
    /\ rin = [processor |-> "subranges", requestedStart |-> 1, requestedEnd |-> 2,
              stored |-> {}, hasRecord |-> FALSE, now |-> MaxTime]
    /\ rout = NotComputed
    /\ sv = NoSave
    /\ binance = NewBinance(DefaultWeightLimit, "any")
    /\ fetchers = [f \in Fetchers |-> IdleFetcher]
    /\ hd = NoHistoricalData
    /\ sb = NoBatchedSave

----------------------------------------------------------------------------
(* QueueService.createDownloadJob *)

\* findOne({symbol, timeframe, status in [PENDING, RUNNING]}) and the throw;
\* the callers are interchangeable, so they are numbered in the order of
\* their checks
CreateCheck(c, w) ==
    /\ calls[c].pc = "idle"
    /\ \A k \in JobIds : k < c => calls[k].pc # "idle"
    /\ calls' = [calls EXCEPT ![c] =
                   IF \E j \in JobIds : Active(jobs[j])
                   THEN [pc |-> "rejected", window |-> w]
                   ELSE [pc |-> "checked", window |-> w]]
    /\ UNCHANGED <<registered, jobs, cancels, queue, wk, inflight, candleModel,
                   extent, emitted, stats, rin, rout, sv, fvars, hd, sb>>

\* job.save() and downloadQueue.add(...)
CreateInsert(c) ==
    /\ calls[c].pc = "checked"
    /\ \E j \in JobIds :
        /\ jobs[j].status = "NONE"
        /\ \A k \in JobIds : k < j => jobs[k].status # "NONE"
        /\ jobs' = [jobs EXCEPT ![j] = NewJob(calls[c].window)]
        /\ queue' = queue \cup {j}
    /\ calls' = [calls EXCEPT ![c].pc = "done"]
    /\ UNCHANGED <<registered, cancels, wk, inflight, candleModel, extent, emitted,
                   stats, rin, rout, sv, fvars, hd, sb>>

----------------------------------------------------------------------------
(* QueueService.cancelJob *)

Processing(j) == wk[j].pc \notin {"idle", "done"}

\* the cancelJob call ends (pc: "done", or "failed" when remove() threw); for
\* a call that ends between two ranges of the job, after a save, the requests
\* made and the candles stored by then are kept for the cancellation claims
CancelReturns(j, pc) ==
    IF wk[j].pc = "rangeStart" /\ wk[j].i > 1 /\ stats[j].saves > 0
    THEN [pc |-> pc, atBoundary |-> TRUE, requests |-> stats[j].requests,
          stored |-> candleModel]
    ELSE [IdleCancel EXCEPT !.pc = pc]

\* findById, the COMPLETED check, and bullJob.remove(): a waiting job leaves
\* the queue; for a job a worker holds, remove() either throws or goes through
CancelLoad(j, removeThrows) ==
    /\ cancels[j].pc = "idle"
    /\ Cardinality({k \in JobIds : cancels[k].pc # "idle"}) < MaxCancels
    /\ jobs[j].status # "NONE"
    /\ removeThrows => (Processing(j) /\ jobs[j].status # "COMPLETED")
    /\ cancels' = [cancels EXCEPT ![j] =
                     IF jobs[j].status = "COMPLETED"
                     THEN [@ EXCEPT !.pc = "rejected"]
                     ELSE IF removeThrows THEN CancelReturns(j, "failed")
                     ELSE [@ EXCEPT !.pc = "loaded"]]
    /\ queue' = IF jobs[j].status = "COMPLETED" THEN queue ELSE queue \ {j}
    /\ UNCHANGED <<registered, jobs, calls, wk, inflight, candleModel, extent,
                   emitted, stats, rin, rout, sv, fvars, hd, sb>>

\* job.status = CANCELLED; job.save()
CancelSave(j) ==
    /\ cancels[j].pc = "loaded"
    /\ jobs' = [jobs EXCEPT ![j].status = "CANCELLED"]
    /\ cancels' = [cancels EXCEPT ![j] = CancelReturns(j, "done")]
    /\ UNCHANGED <<registered, calls, queue, wk, inflight, candleModel, extent,
                   emitted, stats, rin, rout, sv, fvars, hd, sb>>

----------------------------------------------------------------------------
(* DownloadProcessor.handleDownload, one action per await *)

Emit(j, events) ==
    emitted' = [emitted EXCEPT ![j] = Publish(@, events)]

TotalRange(j) == jobs[j].endDate - jobs[j].startDate

\* the catch block: markJobAsFailed(jobId, error.message), emitJobFailed
Fails(j, error, before) ==
    /\ jobs' = [jobs EXCEPT ![j] = MarkJobAsFailed(@, error)]
    /\ wk' = [wk EXCEPT ![j] = Finished(wk[j].run)]
    /\ Emit(j, before \o <<Event(wk[j].run, "failed", NULL, NULL)>>)

\* @Process('download-history') without a concurrency option: the worker
\* process runs one handleDownload at a time
RECURSIVE SumRuns(_)
SumRuns(js) == IF js = {} THEN 0
               ELSE LET j == CHOOSE k \in js : TRUE
                    IN wk[j].run + SumRuns(js \ {j})

\* handleDownload activations so far
Deliveries == SumRuns(JobIds)

WorkerFree == \A k \in JobIds : wk[k].pc \in {"idle", "done"}

\* the queue hands the job to the worker: markJobAsStarted, first emitJobUpdate
Pickup(j) ==
    /\ j \in queue
    /\ wk[j].pc = "idle"
    /\ WorkerFree
    /\ Deliveries < MaxDeliveries
    /\ queue' = queue \ {j}
    /\ jobs' = [jobs EXCEPT ![j] = MarkJobAsStarted(@)]
    /\ wk' = [wk EXCEPT ![j] = [IdleWorker EXCEPT !.pc = "analyze",
                                                  !.run = wk[j].run + 1]]
    /\ Emit(j, <<Event(wk[j].run + 1, "running", 0, NULL)>>)
    /\ UNCHANGED <<registered, calls, cancels, inflight, candleModel, extent, stats,
                   rin, rout, sv, fvars, hd, sb>>

\* the queue delivers a job a second time (at-least-once delivery)
Redeliver(j) ==
    /\ wk[j].pc = "done"
    /\ Deliveries < MaxDeliveries
    /\ cancels[j].pc \notin {"loaded", "done"}
    /\ queue' = queue \cup {j}
    /\ wk' = [wk EXCEPT ![j] = [IdleWorker EXCEPT !.run = wk[j].run]]
    /\ UNCHANGED <<registered, jobs, calls, cancels, inflight, candleModel, extent,
                   emitted, stats, rin, rout, sv, fvars, hd, sb>>

\* getDataRange and the range list; the empty list completes the job at once
Analyze(j, now) ==
    /\ wk[j].pc = "analyze"
    /\ LET ranges == JobRanges(registered, jobs[j].startDate, jobs[j].endDate,
                               extent, candleModel, now)
       IN IF Len(ranges) = 0
          THEN /\ jobs' = [jobs EXCEPT ![j] = MarkJobAsCompleted(@, 0)]
               /\ wk' = [wk EXCEPT ![j] = Finished(wk[j].run)]
               /\ Emit(j, <<Event(wk[j].run, "completed", 100, NULL)>>)
          ELSE /\ wk' = [wk EXCEPT ![j].pc = "rangeStart", ![j].ranges = ranges,
                                   ![j].i = 1]
               /\ IF registered = "gaps"
                  THEN Emit(j, <<Event(wk[j].run, "running", 5, NULL)>>)
                  ELSE UNCHANGED emitted
               /\ UNCHANGED jobs
    /\ UNCHANGED <<registered, calls, cancels, queue, inflight, candleModel, extent,
                   stats, rin, rout, sv, fvars, hd, sb>>

CurrentRange(j) == wk[j].ranges[wk[j].i]

\* top of the range loop: the range-start emitJobUpdate, getHistoricalData begins
RangeStart(j) ==
    /\ wk[j].pc = "rangeStart"
    /\ wk' = [wk EXCEPT ![j].pc = "fetch", ![j].cur = CurrentRange(j).start,
                        ![j].klines = <<>>]
    /\ Emit(j, <<Event(wk[j].run, "running",
                       IF registered = "subranges"
                       THEN SubRangeStartProgress(wk[j].accumulated, TotalRange(j))
                       ELSE GapRangeStartProgress(wk[j].i - 1, Len(wk[j].ranges)),
                       NULL)>>)
    /\ UNCHANGED <<registered, jobs, calls, cancels, queue, inflight, candleModel,
                   extent, stats, rin, rout, sv, fvars, hd, sb>>

MayRequest(j) ==
    /\ wk[j].pc = "fetch"
    /\ wk[j].cur < CurrentRange(j).end

CountRequest(j) == stats' = [stats EXCEPT ![j].requests = @ + 1]

\* the progress value and the candle count the onProgress callback reports
CallbackProgress(j, count) ==
    LET range == CurrentRange(j)
        percent == RangeProgress(count,
                       TotalEstimatedCandles(range.start, range.end))
    IN IF registered = "subranges"
       THEN [progress |-> SubPageProgress(wk[j].accumulated, RangeSize(range),
                                          TotalRange(j), percent),
             processedCandles |-> count]
       ELSE [progress |-> GapPageProgress(wk[j].i - 1, Len(wk[j].ranges), percent),
             processedCandles |-> Len(wk[j].allKlines) + count]

\* one getKlines call that returns a page (possibly empty, which ends the loop)
FetchPage(j) ==
    /\ MayRequest(j)
    /\ CountRequest(j)
    /\ LET page == KlinesPage(wk[j].cur, CurrentRange(j).end, PageLimit)
           all == wk[j].klines \o page
           cb == CallbackProgress(j, Len(all))
       IN IF Len(page) = 0
          THEN /\ wk' = [wk EXCEPT ![j].pc = "fetched"]
               /\ UNCHANGED <<inflight, emitted>>
          ELSE /\ wk' = [wk EXCEPT ![j].klines = all,
                                   ![j].cur = CloseTime(page[Len(page)]) + 1]
               /\ inflight' = [inflight EXCEPT ![j] = @ \cup {cb}]
               /\ Emit(j, <<Event(wk[j].run, "running", cb.progress,
                                  cb.processedCandles)>>)
    /\ UNCHANGED <<registered, jobs, calls, cancels, queue, candleModel, extent,
                   rin, rout, sv, fvars, hd, sb>>

\* getKlines ends with HTTP 429: getHistoricalData sleeps and asks again
FetchRateLimited(j) ==
    /\ MayRequest(j)
    /\ stats[j].requests < MaxRateLimits
    /\ CountRequest(j)
    /\ UNCHANGED <<registered, jobs, calls, cancels, queue, wk, inflight,
                   candleModel, extent, emitted, rin, rout, sv, fvars, hd, sb>>

\* getKlines throws another error: the job fails
FetchError(j) ==
    /\ MayRequest(j)
    /\ CountRequest(j)
    /\ Fails(j, "fetch", <<>>)
    /\ UNCHANGED <<registered, calls, cancels, queue, inflight, candleModel, extent,
                   rin, rout, sv, fvars, hd, sb>>

\* while (currentStartTime < finalEndTime) is false: the range is fetched
LoopExit(j) ==
    /\ wk[j].pc = "fetch"
    /\ wk[j].cur >= CurrentRange(j).end
    /\ wk' = [wk EXCEPT ![j].pc = "fetched"]
    /\ UNCHANGED <<registered, jobs, calls, cancels, queue, inflight, candleModel,
                   extent, emitted, stats, rin, rout, sv, fvars, hd, sb>>

NextRangeOrPc(j, pc) ==
    IF wk[j].i + 1 > Len(wk[j].ranges) THEN pc ELSE "rangeStart"

SavingEvent(j) ==
    Event(wk[j].run, "running",
          SubSavingProgress(wk[j].accumulated, RangeSize(CurrentRange(j)),
                            TotalRange(j)),
          Len(wk[j].klines))

\* download.processor.ts: save the range (when it has candles), next range
SaveRange(j) ==
    /\ registered = "subranges"
    /\ wk[j].pc = "fetched"
    /\ wk' = [wk EXCEPT ![j].pc = NextRangeOrPc(j, "complete"),
                        ![j].i = @ + 1,
                        ![j].accumulated = @ + RangeSize(CurrentRange(j)),
                        ![j].totalCandles = @ + Len(wk[j].klines)]
    /\ IF Len(wk[j].klines) > 0
       THEN /\ Emit(j, <<SavingEvent(j)>>)
            /\ candleModel' = SaveCandles(candleModel, wk[j].klines)
            /\ extent' = UpdateSymbolMetadataFull(extent, candleModel')
            /\ stats' = [stats EXCEPT ![j].saves = @ + 1]
       ELSE UNCHANGED <<emitted, candleModel, extent, stats>>
    /\ UNCHANGED <<registered, jobs, calls, cancels, queue, inflight, rin, rout, sv, fvars, hd, sb>>

\* download.processor.ts: saveCandles throws
SaveRangeFails(j) ==
    /\ registered = "subranges"
    /\ wk[j].pc = "fetched"
    /\ Len(wk[j].klines) > 0
    /\ Fails(j, "save", <<SavingEvent(j)>>)
    /\ UNCHANGED <<registered, calls, cancels, queue, inflight, candleModel, extent,
                   stats, rin, rout, sv, fvars, hd, sb>>

\* gap-aware processor: allKlines.push(...klines), next range
BufferRange(j) ==
    /\ registered = "gaps"
    /\ wk[j].pc = "fetched"
    /\ wk' = [wk EXCEPT ![j].pc = NextRangeOrPc(j, "saveAll"),
                        ![j].i = @ + 1,
                        ![j].allKlines = @ \o wk[j].klines]
    /\ UNCHANGED <<registered, jobs, calls, cancels, queue, inflight, candleModel,
                   extent, emitted, stats, rin, rout, sv, fvars, hd, sb>>

SavingAllEvent(j) == Event(wk[j].run, "running", 95, Len(wk[j].allKlines))

\* gap-aware processor: one saveCandles of everything fetched, extent update
SaveAll(j) ==
    /\ registered = "gaps"
    /\ wk[j].pc = "saveAll"
    /\ wk' = [wk EXCEPT ![j].pc = "complete"]
    /\ IF Len(wk[j].allKlines) > 0
       THEN /\ Emit(j, <<SavingAllEvent(j)>>)
            /\ candleModel' = SaveCandles(candleModel, wk[j].allKlines)
            /\ extent' = UpdateSymbolMetadata(extent, candleModel',
                                              NewRecords(candleModel, wk[j].allKlines))
            /\ stats' = [stats EXCEPT ![j].saves = @ + 1]
       ELSE UNCHANGED <<emitted, candleModel, extent, stats>>
    /\ UNCHANGED <<registered, jobs, calls, cancels, queue, inflight, rin, rout, sv, fvars, hd, sb>>

\* gap-aware processor: saveCandles throws
SaveAllFails(j) ==
    /\ registered = "gaps"
    /\ wk[j].pc = "saveAll"
    /\ Len(wk[j].allKlines) > 0
    /\ Fails(j, "save", <<SavingAllEvent(j)>>)
    /\ UNCHANGED <<registered, calls, cancels, queue, inflight, candleModel, extent,
                   stats, rin, rout, sv, fvars, hd, sb>>

\* download.processor.ts: saveCandles has stored the range, then
\* updateSymbolMetadata(symbol, timeframe) throws (its aggregate or its
\* findOneAndUpdate fails, no try/catch around them): the job fails
UpdateSymbolMetadataThrows(j) ==
    /\ registered = "subranges"
    /\ wk[j].pc = "fetched"
    /\ Len(wk[j].klines) > 0
    /\ candleModel' = SaveCandles(candleModel, wk[j].klines)
    /\ stats' = [stats EXCEPT ![j].saves = @ + 1]
    /\ Fails(j, "metadata", <<SavingEvent(j)>>)
    /\ UNCHANGED <<registered, calls, cancels, queue, inflight, extent,
                   rin, rout, sv, fvars, hd, sb>>

\* gap-aware processor: saveCandles has stored the candles, then a read or the
\* write inside updateSymbolMetadata(symbol, timeframe, newRecords) fails: its
\* catch logs the error and returns, the extent record stays as it was
UpdateSymbolMetadataCaught(j) ==
    /\ registered = "gaps"
    /\ wk[j].pc = "saveAll"
    /\ Len(wk[j].allKlines) > 0
    /\ NewRecords(candleModel, wk[j].allKlines) > 0
    /\ wk' = [wk EXCEPT ![j].pc = "complete"]
    /\ Emit(j, <<SavingAllEvent(j)>>)
    /\ candleModel' = SaveCandles(candleModel, wk[j].allKlines)
    /\ stats' = [stats EXCEPT ![j].saves = @ + 1]
    /\ UNCHANGED <<registered, jobs, calls, cancels, queue, inflight, extent,
                   rin, rout, sv, fvars, hd, sb>>

FinalCount(j) ==
    IF registered = "subranges" THEN wk[j].totalCandles ELSE Len(wk[j].allKlines)

\* markJobAsCompleted(jobId, totalCandles), emitJobCompleted
Complete(j) ==
    /\ wk[j].pc = "complete"
    /\ jobs' = [jobs EXCEPT ![j] = MarkJobAsCompleted(@, FinalCount(j))]
    /\ wk' = [wk EXCEPT ![j] = Finished(wk[j].run)]
    /\ Emit(j, <<Event(wk[j].run, "completed", 100, FinalCount(j))>>)
    /\ UNCHANGED <<registered, calls, cancels, queue, inflight, candleModel, extent,
                   stats, rin, rout, sv, fvars, hd, sb>>

\* the emitJobUpdate at the top of the range loop throws inside the try block
EmitJobUpdateThrows(j) ==
    /\ wk[j].pc = "rangeStart"
    /\ wk' = [wk EXCEPT ![j].pc = "catch"]
    /\ UNCHANGED <<registered, jobs, calls, cancels, queue, inflight, candleModel,
                   extent, emitted, stats, rin, rout, sv, fvars, hd, sb>>

\* markJobAsCompleted has been awaited and the emitJobCompleted after it throws
EmitJobCompletedThrows(j) ==
    /\ wk[j].pc = "complete"
    /\ jobs' = [jobs EXCEPT ![j] = MarkJobAsCompleted(@, FinalCount(j))]
    /\ wk' = [wk EXCEPT ![j].pc = "catch"]
    /\ UNCHANGED <<registered, calls, cancels, queue, inflight, candleModel, extent,
                   emitted, stats, rin, rout, sv, fvars, hd, sb>>

\* the catch block after a publish threw: markJobAsFailed, emitJobFailed
CatchPublishError(j) ==
    /\ wk[j].pc = "catch"
    /\ Fails(j, "publish", <<>>)
    /\ UNCHANGED <<registered, calls, cancels, queue, inflight, candleModel, extent,
                   stats, rin, rout, sv, fvars, hd, sb>>

\* an updateJobProgress write issued by the callback reaches the collection
ApplyProgress(j) ==
    /\ \E w \in inflight[j] :
        /\ jobs' = [jobs EXCEPT ![j] =
                      UpdateJobProgress(@, w.progress, w.processedCandles)]
        /\ inflight' = [inflight EXCEPT ![j] = @ \ {w}]
    /\ UNCHANGED <<registered, calls, cancels, queue, wk, candleModel, extent,
                   emitted, stats, rin, rout, sv, fvars, hd, sb>>

Next ==
    \/ \E c \in JobIds, w \in Windows : CreateCheck(c, w)
    \/ \E c \in JobIds : CreateInsert(c)
    \/ \E j \in JobIds, removeThrows \in BOOLEAN : CancelLoad(j, removeThrows)
    \/ \E j \in JobIds : CancelSave(j)
    \/ \E j \in JobIds : Pickup(j)
    \/ \E j \in JobIds : Redeliver(j)
    \/ \E j \in JobIds, now \in Nows : Analyze(j, now)
    \/ \E j \in JobIds : RangeStart(j)
    \/ \E j \in JobIds : FetchPage(j)
    \/ \E j \in JobIds : FetchRateLimited(j)
    \/ \E j \in JobIds : FetchError(j)
    \/ \E j \in JobIds : LoopExit(j)
    \/ \E j \in JobIds : SaveRange(j)
    \/ \E j \in JobIds : SaveRangeFails(j)
    \/ \E j \in JobIds : BufferRange(j)
    \/ \E j \in JobIds : SaveAll(j)
    \/ \E j \in JobIds : SaveAllFails(j)
    \/ \E j \in JobIds : Complete(j)
    \/ \E j \in JobIds : ApplyProgress(j)

Spec == Init /\ [][Next]_vars

----------------------------------------------------------------------------
(* Specification of one handleDownload run over a longer request window,
   publish failures included *)

\* the open times of the longer window
LongSlots == UpstreamSlots
LongWindows == {w \in LongSlots \X LongSlots : w[1] < w[2]}

\* job 1 has just been picked up: markJobAsStarted done, first event emitted
InitRun ==
    /\ registered \in Processors
    /\ candleModel \in SUBSET LongSlots
    /\ extent = InitialExtent(candleModel)
    /\ jobs \in {[j \in JobIds |-> IF j = 1 THEN MarkJobAsStarted(NewJob(w))
                                   ELSE NoJob] : w \in LongWindows}
    /\ wk = [j \in JobIds |-> IF j = 1
                              THEN [IdleWorker EXCEPT !.pc = "analyze", !.run = 1]
                              ELSE IdleWorker]
    /\ emitted = [j \in JobIds |-> IF j = 1 THEN Event(1, "running", 0, NULL)
                                   ELSE NoEvent]
    /\ calls = [c \in JobIds |-> IdleCall]
    /\ cancels = [j \in JobIds |-> IdleCancel]
    /\ queue = {}
    /\ inflight = [j \in JobIds |-> {}]
    /\ stats = [j \in JobIds |-> NoStats]
    /\ rin = [processor |-> "subranges", requestedStart |-> 1, requestedEnd |-> 2,
              stored |-> {}, hasRecord |-> FALSE, now |-> MaxTime]
    /\ rout = NotComputed
    /\ sv = NoSave
    /\ binance = NewBinance(DefaultWeightLimit, "any")
    /\ fetchers = [f \in Fetchers |-> IdleFetcher]
    /\ hd = NoHistoricalData
    /\ sb = NoBatchedSave

NextRun ==
    \/ \E j \in JobIds, now \in Nows : Analyze(j, now)
    \/ \E j \in JobIds : RangeStart(j)
    \/ \E j \in JobIds : FetchPage(j)
    \/ \E j \in JobIds : FetchRateLimited(j)
    \/ \E j \in JobIds : FetchError(j)
    \/ \E j \in JobIds : LoopExit(j)
    \/ \E j \in JobIds : SaveRange(j)
    \/ \E j \in JobIds : SaveRangeFails(j)
    \/ \E j \in JobIds : BufferRange(j)
    \/ \E j \in JobIds : SaveAll(j)
    \/ \E j \in JobIds : SaveAllFails(j)
    \/ \E j \in JobIds : UpdateSymbolMetadataThrows(j)
    \/ \E j \in JobIds : UpdateSymbolMetadataCaught(j)
    \/ \E j \in JobIds : Complete(j)
    \/ \E j \in JobIds : EmitJobUpdateThrows(j)
    \/ \E j \in JobIds : EmitJobCompletedThrows(j)
    \/ \E j \in JobIds : CatchPublishError(j)
    \/ \E j \in JobIds : ApplyProgress(j)

SpecRun == InitRun /\ [][NextRun]_vars

----------------------------------------------------------------------------
(* Specification of one job's run to its end, against an exchange that answers
   or that answers every request with HTTP 429, with the worker always taking
   its next step *)

\* the stored open times a run starts from: none, or one in the middle
LiveStored == {{}, {MaxTime}}

InitLive ==
    /\ registered \in Processors
    /\ candleModel \in LiveStored
    /\ extent = InitialExtent(candleModel)
    /\ jobs \in {[j \in JobIds |-> IF j = 1 THEN MarkJobAsStarted(NewJob(w))
                                   ELSE NoJob] : w \in LongWindows}
    /\ wk = [j \in JobIds |-> IF j = 1
                              THEN [IdleWorker EXCEPT !.pc = "analyze", !.run = 1]
                              ELSE IdleWorker]
    /\ emitted = [j \in JobIds |-> IF j = 1 THEN Event(1, "running", 0, NULL)
                                   ELSE NoEvent]
    /\ binance \in {NewBinance(DefaultWeightLimit, u) : u \in Upstreams}
    /\ calls = [c \in JobIds |-> IdleCall]
    /\ cancels = [j \in JobIds |-> IdleCancel]
    /\ queue = {}
    /\ inflight = [j \in JobIds |-> {}]
    /\ stats = [j \in JobIds |-> NoStats]
    /\ rin = [processor |-> "subranges", requestedStart |-> 1, requestedEnd |-> 2,
              stored |-> {}, hasRecord |-> FALSE, now |-> MaxTime]
    /\ rout = NotComputed
    /\ sv = NoSave
    /\ fetchers = [f \in Fetchers |-> IdleFetcher]
    /\ hd = NoHistoricalData
    /\ sb = NoBatchedSave

\* the exchange answers the request: a page, or an error other than 429
Answered(j) ==
    /\ binance.upstream = "any"
    /\ (FetchPage(j) \/ FetchError(j))

\* getKlines ends with HTTP 429: catch, error.status === 429, sleep(60000)
RateLimitedSleep(j) ==
    /\ MayRequest(j)
    /\ wk' = [wk EXCEPT ![j].pc = "limited"]
    /\ UNCHANGED <<registered, jobs, calls, cancels, queue, inflight, candleModel,
                   extent, emitted, stats, rin, rout, sv, fvars, hd, sb>>

\* the sleep is over: continue, the loop asks again with the same start time
RateLimitedContinue(j) ==
    /\ wk[j].pc = "limited"
    /\ wk' = [wk EXCEPT ![j].pc = "fetch"]
    /\ UNCHANGED <<registered, jobs, calls, cancels, queue, inflight, candleModel,
                   extent, emitted, stats, rin, rout, sv, fvars, hd, sb>>

NextLive ==
    \/ \E j \in JobIds, now \in Nows : Analyze(j, now)
    \/ \E j \in JobIds : RangeStart(j)
    \/ \E j \in JobIds : Answered(j)
    \/ \E j \in JobIds : RateLimitedSleep(j)
    \/ \E j \in JobIds : RateLimitedContinue(j)
    \/ \E j \in JobIds : LoopExit(j)
    \/ \E j \in JobIds : SaveRange(j)
    \/ \E j \in JobIds : SaveRangeFails(j)
    \/ \E j \in JobIds : BufferRange(j)
    \/ \E j \in JobIds : SaveAll(j)
    \/ \E j \in JobIds : SaveAllFails(j)
    \/ \E j \in JobIds : Complete(j)
    \/ \E j \in JobIds : ApplyProgress(j)

\* the event loop runs every continuation that is ready
SpecLive == InitLive /\ [][NextLive]_vars /\ WF_vars(NextLive)

----------------------------------------------------------------------------

(* Specification of one range computation on drawn inputs *)

RangeInputs ==
    [processor : Processors,
     requestedStart : Times,
     requestedEnd : Times,
     stored : SUBSET Slots,
     hasRecord : BOOLEAN,
     now : Nows]

InitRanges ==
    /\ rin \in {i \in RangeInputs :
                  /\ i.requestedStart < i.requestedEnd
                  /\ (~i.hasRecord => i.stored = {})}
    /\ rout = NotComputed
    /\ registered = "subranges"
    /\ jobs = [j \in JobIds |-> NoJob]
    /\ calls = [c \in JobIds |-> IdleCall]
    /\ cancels = [j \in JobIds |-> IdleCancel]
    /\ queue = {}
    /\ wk = [j \in JobIds |-> IdleWorker]
    /\ inflight = [j \in JobIds |-> {}]
    /\ candleModel = {}
    /\ extent = InitialExtent({})
    /\ emitted = [j \in JobIds |-> NoEvent]
    /\ stats = [j \in JobIds |-> NoStats]
    /\ sv = NoSave
    /\ binance = NewBinance(DefaultWeightLimit, "any")
    /\ fetchers = [f \in Fetchers |-> IdleFetcher]
    /\ hd = NoHistoricalData
    /\ sb = NoBatchedSave

ExtentIn(i) == IF i.hasRecord THEN ExtentOf(i.stored) ELSE NoExtent

ComputeRanges ==
    /\ ~rout.computed
    /\ rout' = [computed |-> TRUE,
                ranges |-> JobRanges(rin.processor, rin.requestedStart,
                                     rin.requestedEnd, ExtentIn(rin),
                                     rin.stored, rin.now)]
    /\ UNCHANGED <<rin, registered, jobs, calls, cancels, queue, wk, inflight,
                   candleModel, extent, emitted, stats, sv, fvars, hd, sb>>

NextRanges == ComputeRanges

SpecRanges == InitRanges /\ [][NextRanges]_vars

----------------------------------------------------------------------------
(* Specification of one range computation of the gap-aware processor over a
   longer stretch of open times *)

\* the current times: at or after the last open time of the stretch
LongNows == (MaxTime + 2 * Interval)..(MaxTime + 2 * Interval + MaxNowDelta)

LongRangeInputs ==
    [processor : {"gaps"},
     requestedStart : 1..(MaxTime + 2 * Interval),
     requestedEnd : 1..(MaxTime + 2 * Interval),
     stored : SUBSET LongSlots,
     hasRecord : {TRUE},
     now : LongNows]

InitGaps ==
    /\ rin \in {i \in LongRangeInputs : i.requestedStart < i.requestedEnd}
    /\ rout = NotComputed
    /\ registered = "gaps"
    /\ jobs = [j \in JobIds |-> NoJob]
    /\ calls = [c \in JobIds |-> IdleCall]
    /\ cancels = [j \in JobIds |-> IdleCancel]
    /\ queue = {}
    /\ wk = [j \in JobIds |-> IdleWorker]
    /\ inflight = [j \in JobIds |-> {}]
    /\ candleModel = {}
    /\ extent = InitialExtent({})
    /\ emitted = [j \in JobIds |-> NoEvent]
    /\ stats = [j \in JobIds |-> NoStats]
    /\ sv = NoSave
    /\ binance = NewBinance(DefaultWeightLimit, "any")
    /\ fetchers = [f \in Fetchers |-> IdleFetcher]
    /\ hd = NoHistoricalData
    /\ sb = NoBatchedSave

SpecGaps == InitGaps /\ [][NextRanges]_vars

----------------------------------------------------------------------------
(* Specification of one saveCandles followed by updateSymbolMetadata with the
   reported newRecords, on drawn rows, extent record and candles *)

\* the extent record is that of the rows or lags behind them (an earlier save
\* whose extent update did not happen)
MetadataInputs ==
    {[stored |-> s, ext |-> InitialExtent(x), klines |-> SortedSeq(k)] :
        s \in SUBSET LongSlots, x \in SUBSET LongSlots, k \in SUBSET LongSlots}

NoMetadataUpdate == [computed |-> FALSE, stored |-> {}, newRecords |-> 0,
                     extent |-> InitialExtent({})]

InitMeta ==
    /\ rin \in {i \in MetadataInputs :
                  /\ i.klines # <<>>
                  /\ i.ext.totalCandles <= Cardinality(i.stored)
                  /\ i.ext.totalCandles > 0 =>
                        {i.ext.earliestData, i.ext.latestData} \subseteq i.stored}
    /\ rout = NoMetadataUpdate
    /\ registered = "gaps"
    /\ jobs = [j \in JobIds |-> NoJob]
    /\ calls = [c \in JobIds |-> IdleCall]
    /\ cancels = [j \in JobIds |-> IdleCancel]
    /\ queue = {}
    /\ wk = [j \in JobIds |-> IdleWorker]
    /\ inflight = [j \in JobIds |-> {}]
    /\ candleModel = {}
    /\ extent = InitialExtent({})
    /\ emitted = [j \in JobIds |-> NoEvent]
    /\ stats = [j \in JobIds |-> NoStats]
    /\ sv = NoSave
    /\ binance = NewBinance(DefaultWeightLimit, "any")
    /\ fetchers = [f \in Fetchers |-> IdleFetcher]
    /\ hd = NoHistoricalData
    /\ sb = NoBatchedSave

\* saveResult = saveCandles(klines); updateSymbolMetadata(saveResult.newRecords)
SaveAndUpdateMetadata ==
    /\ ~rout.computed
    /\ LET stored == SaveCandles(rin.stored, rin.klines)
           newRecords == NewRecords(rin.stored, rin.klines)
       IN rout' = [computed |-> TRUE, stored |-> stored, newRecords |-> newRecords,
                   extent |-> UpdateSymbolMetadata(rin.ext, stored, newRecords)]
    /\ UNCHANGED <<rin, registered, jobs, calls, cancels, queue, wk, inflight,
                   candleModel, extent, emitted, stats, sv, fvars, hd, sb>>

NextMeta == SaveAndUpdateMetadata

SpecMeta == InitMeta /\ [][NextMeta]_vars

----------------------------------------------------------------------------

(* HistoryService.getCandles read page by page along the returned cursor, on
   drawn rows and a drawn query *)

DefaultLimit == 2   \* query.limit || 100, scaled
MaxLimit == 3       \* largest query.limit

\* a getCandles whose cursor page starts at the cursor itself ($gte)
GetCandlesFromCursor(stored, startTime, endTime, cursor, queryLimit) ==
    LET matching == {t \in stored :
                        /\ t <= endTime
                        /\ IF cursor # NULL THEN t >= cursor ELSE t >= startTime}
        limit == IF queryLimit = 0 THEN DefaultLimit ELSE queryLimit
        sorted == SortedSeq(matching)
        found == SubSeq(sorted, 1, Min(limit + 1, Len(sorted)))
        hasNext == Len(found) > limit
        data == IF hasNext THEN SubSeq(found, 1, Len(found) - 1) ELSE found
        last == IF Len(data) > 0 THEN data[Len(data)] ELSE NULL
    IN [data |-> data, cursor |-> IF hasNext THEN last ELSE NULL,
        hasNext |-> hasNext]

\* getCandles(query): filter openTime <= endTime and > cursor (or >= startTime
\* without a cursor), sort ascending, limit + 1 rows, pop the extra row; the
\* cursor is the open time of the last row returned (toISOString, read back
\* with new Date), null when there is no next page
GetCandles(stored, startTime, endTime, cursor, queryLimit) ==
    LET matching == {t \in stored :
                        /\ t <= endTime
                        /\ IF cursor # NULL THEN t > cursor ELSE t >= startTime}
        limit == IF queryLimit = 0 THEN DefaultLimit ELSE queryLimit
        sorted == SortedSeq(matching)
        found == SubSeq(sorted, 1, Min(limit + 1, Len(sorted)))
        hasNext == Len(found) > limit
        data == IF hasNext THEN SubSeq(found, 1, Len(found) - 1) ELSE found
        last == IF Len(data) > 0 THEN data[Len(data)] ELSE NULL
    IN [data |-> data, cursor |-> IF hasNext THEN last ELSE NULL,
        hasNext |-> hasNext]

\* the rows and the query of the first call
CandleQueries ==
    [stored : SUBSET LongSlots,
     startTime : 1..(MaxTime + 2 * Interval),
     endTime : 1..(MaxTime + 2 * Interval),
     limit : 0..MaxLimit]

\* the reader before its first call: no cursor, no page
NoPagesRead == [computed |-> FALSE, cursor |-> NULL, pages |-> <<>>]

InitRead ==
    /\ rin \in CandleQueries
    /\ rout = NoPagesRead
    /\ registered = "gaps"
    /\ jobs = [j \in JobIds |-> NoJob]
    /\ calls = [c \in JobIds |-> IdleCall]
    /\ cancels = [j \in JobIds |-> IdleCancel]
    /\ queue = {}
    /\ wk = [j \in JobIds |-> IdleWorker]
    /\ inflight = [j \in JobIds |-> {}]
    /\ candleModel = {}
    /\ extent = InitialExtent({})
    /\ emitted = [j \in JobIds |-> NoEvent]
    /\ stats = [j \in JobIds |-> NoStats]
    /\ sv = NoSave
    /\ binance = NewBinance(DefaultWeightLimit, "any")
    /\ fetchers = [f \in Fetchers |-> IdleFetcher]
    /\ hd = NoHistoricalData
    /\ sb = NoBatchedSave

\* one getCandles call with the cursor of the page before; the reader stops
\* when hasNext is false
ReadPage ==
    /\ ~rout.computed
    /\ LET page == GetCandles(rin.stored, rin.startTime, rin.endTime,
                              rout.cursor, rin.limit)
       IN rout' = [computed |-> ~page.hasNext, cursor |-> page.cursor,
                   pages |-> Append(rout.pages, page)]
    /\ UNCHANGED <<rin, registered, jobs, calls, cancels, queue, wk, inflight,
                   candleModel, extent, emitted, stats, sv, fvars, hd, sb>>

NextRead == ReadPage

SpecRead == InitRead /\ [][NextRead]_vars

----------------------------------------------------------------------------

(* Specification of saveCandles called twice with the same input *)

MaxSaves == 2   \* saveCandles calls on the one input

KlineInputs == UNION {[1..n -> Klines] : n \in 1..MaxKlines}

InitSave ==
    /\ sv \in {[rows |-> r, klines |-> k, results |-> <<>>, rowsAfter |-> <<>>] :
                 r \in Rows, k \in KlineInputs}
    /\ rin = [processor |-> "subranges", requestedStart |-> 1, requestedEnd |-> 2,
              stored |-> {}, hasRecord |-> FALSE, now |-> MaxTime]
    /\ rout = NotComputed
    /\ binance = NewBinance(DefaultWeightLimit, "any")
    /\ fetchers = [f \in Fetchers |-> IdleFetcher]
    /\ hd = NoHistoricalData
    /\ sb = NoBatchedSave
    /\ registered = "subranges"
    /\ jobs = [j \in JobIds |-> NoJob]
    /\ calls = [c \in JobIds |-> IdleCall]
    /\ cancels = [j \in JobIds |-> IdleCancel]
    /\ queue = {}
    /\ wk = [j \in JobIds |-> IdleWorker]
    /\ inflight = [j \in JobIds |-> {}]
    /\ candleModel = {}
    /\ extent = InitialExtent({})
    /\ emitted = [j \in JobIds |-> NoEvent]
    /\ stats = [j \in JobIds |-> NoStats]

\* one saveCandles call on the input, on the rows the previous call left
SaveOnce ==
    /\ Len(sv.results) < MaxSaves
    /\ LET done == SaveCandlesBatched(sv.rows, sv.klines)
       IN sv' = [sv EXCEPT !.rows = done.rows,
                           !.results = Append(@, done.result),
                           !.rowsAfter = Append(@, done.rows)]
    /\ UNCHANGED <<registered, jobs, calls, cancels, queue, wk, inflight,
                   candleModel, extent, emitted, stats, rin, rout, fvars, hd, sb>>

NextSave == SaveOnce

SpecSave == InitSave /\ [][NextSave]_vars

----------------------------------------------------------------------------
(* Specification of range fetches that share one BinanceService *)

InitFetch ==
    /\ binance \in {NewBinance(l, u) : l \in WeightLimits, u \in Upstreams}
    /\ fetchers = [f \in Fetchers |-> IdleFetcher]
    /\ hd = NoHistoricalData
    /\ sb = NoBatchedSave
    /\ sv = NoSave
    /\ rin = [processor |-> "subranges", requestedStart |-> 1, requestedEnd |-> 2,
              stored |-> {}, hasRecord |-> FALSE, now |-> MaxTime]
    /\ rout = NotComputed
    /\ registered = "subranges"
    /\ jobs = [j \in JobIds |-> NoJob]
    /\ calls = [c \in JobIds |-> IdleCall]
    /\ cancels = [j \in JobIds |-> IdleCancel]
    /\ queue = {}
    /\ wk = [j \in JobIds |-> IdleWorker]
    /\ inflight = [j \in JobIds |-> {}]
    /\ candleModel = {}
    /\ extent = InitialExtent({})
    /\ emitted = [j \in JobIds |-> NoEvent]
    /\ stats = [j \in JobIds |-> NoStats]

jvars == <<registered, jobs, calls, cancels, queue, wk, inflight, candleModel,
           extent, emitted, stats, rin, rout, sv, hd, sb>>

\* synchronous code runs to its next await before any timer fires
Running(f) == fetchers[f].pc \in {"check", "send"}

\* the clock advances
Tick ==
    /\ binance.now < MaxClock
    /\ \A f \in Fetchers : ~Running(f)
    /\ binance' = [binance EXCEPT !.now = @ + 1]
    /\ UNCHANGED <<fetchers, jvars>>

\* getHistoricalData enters its loop body: getKlines, makeRequestWithRetry attempt 1
CallGetKlines(f) ==
    /\ fetchers[f].pc = "idle"
    /\ fetchers[f].pages < MaxPages
    /\ fetchers' = [fetchers EXCEPT ![f].pc = "check", ![f].attempt = 1,
                                    ![f].calls = @ + 1]
    /\ UNCHANGED <<binance, jvars>>

\* checkWeightLimit(1) up to its await: the reset, the test, and either the
\* return or the start of the sleep
CheckWeightLimit(f) ==
    /\ fetchers[f].pc = "check"
    /\ LET limitAtCall == /\ binance.currentWeight >= binance.weightLimit
                          /\ ~WindowExpired(binance.now, binance.weightResetTime)
           notBefore == IF limitAtCall THEN binance.weightResetTime + Window ELSE 0
           b == ResetIfExpired(binance)
       IN /\ binance' = b
          /\ IF MustWait(b, KlinesCost)
             THEN fetchers' = [fetchers EXCEPT ![f].pc = "sleepWeight",
                                  ![f].wakeAt = b.now + WaitTime(b),
                                  ![f].limitAtCall = limitAtCall,
                                  ![f].notBefore = notBefore]
             ELSE fetchers' = [fetchers EXCEPT ![f].pc = "send",
                                  ![f].limitAtCall = limitAtCall,
                                  ![f].notBefore = notBefore,
                                  ![f].admitted = b.currentWeight]
    /\ UNCHANGED jvars

\* the sleep of checkWeightLimit ends: currentWeight = 0, weightResetTime = Date.now()
WakeWeight(f) ==
    /\ fetchers[f].pc = "sleepWeight"
    /\ binance.now >= fetchers[f].wakeAt
    /\ binance' = [binance EXCEPT !.currentWeight = 0,
                                  !.weightResetTime = binance.now]
    /\ fetchers' = [fetchers EXCEPT ![f].pc = "send", ![f].admitted = 0]
    /\ UNCHANGED jvars

\* this.httpClient.get('/fapi/v1/klines')
SendRequest(f) ==
    /\ fetchers[f].pc = "send"
    /\ fetchers' = [fetchers EXCEPT ![f].pc = "waiting", ![f].requests = @ + 1]
    /\ UNCHANGED <<binance, jvars>>

\* a 2xx response: the interceptor calls updateWeightFromHeaders, getKlines returns
ResponseOk(f, header) ==
    /\ fetchers[f].pc = "waiting"
    /\ binance.upstream = "any"
    /\ binance' = UpdateWeightFromHeaders(binance, header)
    /\ fetchers' = [fetchers EXCEPT ![f].pc = "idle", ![f].pages = @ + 1]
    /\ UNCHANGED jvars

\* HTTP 429: the interceptor throws HttpException (no .response, no .code), so
\* makeRequestWithRetry rethrows it on any attempt; getHistoricalData catches
\* error.status = 429, sleeps, and goes round its loop again
ResponseRateLimited(f) ==
    /\ fetchers[f].pc = "waiting"
    /\ fetchers' = [fetchers EXCEPT ![f].pc = "sleepLimited",
                                    ![f].wakeAt = binance.now + RateLimitSleep]
    /\ UNCHANGED <<binance, jvars>>

\* the sleep(60000) of getHistoricalData ends: continue
WakeLimited(f) ==
    /\ fetchers[f].pc = "sleepLimited"
    /\ binance.now >= fetchers[f].wakeAt
    /\ fetchers' = [fetchers EXCEPT ![f].pc = "idle"]
    /\ UNCHANGED <<binance, jvars>>

\* ECONNRESET / ETIMEDOUT: thrown on the last attempt, else a backoff sleep
ResponseNetworkError(f) ==
    /\ fetchers[f].pc = "waiting"
    /\ binance.upstream = "any"
    /\ IF fetchers[f].attempt = MaxRetries
       THEN fetchers' = [fetchers EXCEPT ![f].pc = "failed", ![f].error = "network"]
       ELSE fetchers' = [fetchers EXCEPT ![f].pc = "sleepRetry",
                            ![f].wakeAt = binance.now + RetryDelay(fetchers[f].attempt)]
    /\ UNCHANGED <<binance, jvars>>

\* the backoff sleep ends: the next attempt calls requestFn again
WakeRetry(f) ==
    /\ fetchers[f].pc = "sleepRetry"
    /\ binance.now >= fetchers[f].wakeAt
    /\ fetchers' = [fetchers EXCEPT ![f].pc = "check", ![f].attempt = @ + 1]
    /\ UNCHANGED <<binance, jvars>>

\* any other failure: makeRequestWithRetry and getHistoricalData rethrow it
ResponseOtherError(f) ==
    /\ fetchers[f].pc = "waiting"
    /\ binance.upstream = "any"
    /\ fetchers' = [fetchers EXCEPT ![f].pc = "failed", ![f].error = "other"]
    /\ UNCHANGED <<binance, jvars>>

NextFetch ==
    \/ Tick
    \/ \E f \in Fetchers : CallGetKlines(f)
    \/ \E f \in Fetchers : CheckWeightLimit(f)
    \/ \E f \in Fetchers : WakeWeight(f)
    \/ \E f \in Fetchers : SendRequest(f)
    \/ \E f \in Fetchers, header \in UsedWeightHeaders : ResponseOk(f, header)
    \/ \E f \in Fetchers : ResponseRateLimited(f)
    \/ \E f \in Fetchers : WakeLimited(f)
    \/ \E f \in Fetchers : ResponseNetworkError(f)
    \/ \E f \in Fetchers : WakeRetry(f)
    \/ \E f \in Fetchers : ResponseOtherError(f)

SpecFetch == InitFetch /\ [][NextFetch]_vars

----------------------------------------------------------------------------
(* Specification of one getHistoricalData call *)

InitPages ==
    /\ hd \in {NewHistoricalData(e, s, t) :
                 e \in Exchanges, s \in CallTimes, t \in CallTimes}
    /\ sb = NoBatchedSave
    /\ binance = NewBinance(DefaultWeightLimit, "any")
    /\ fetchers = [f \in Fetchers |-> IdleFetcher]
    /\ sv = NoSave
    /\ rin = [processor |-> "subranges", requestedStart |-> 1, requestedEnd |-> 2,
              stored |-> {}, hasRecord |-> FALSE, now |-> MaxTime]
    /\ rout = NotComputed
    /\ registered = "subranges"
    /\ jobs = [j \in JobIds |-> NoJob]
    /\ calls = [c \in JobIds |-> IdleCall]
    /\ cancels = [j \in JobIds |-> IdleCancel]
    /\ queue = {}
    /\ wk = [j \in JobIds |-> IdleWorker]
    /\ inflight = [j \in JobIds |-> {}]
    /\ candleModel = {}
    /\ extent = InitialExtent({})
    /\ emitted = [j \in JobIds |-> NoEvent]
    /\ stats = [j \in JobIds |-> NoStats]

\* the state outside the getHistoricalData call
ovars == <<registered, jobs, calls, cancels, queue, wk, inflight, candleModel,
           extent, emitted, stats, rin, rout, sv, fvars, sb>>

\* while (currentStartTime < finalEndTime)
InLoop == hd.pc = "loop" /\ hd.currentStartTime < hd.endTime

\* getKlines returns a page: break when it is empty, else push, onProgress,
\* and the next start time
GetKlinesReturns ==
    /\ InLoop
    /\ LET klines == KlinesPageOf(hd.exchange, hd.currentStartTime, hd.endTime,
                                  PageLimit)
           pages == Append(hd.pages, [startTime |-> hd.currentStartTime,
                                      klines |-> klines])
           allKlines == hd.allKlines \o klines
           progress == RangeProgress(Len(allKlines),
                           TotalEstimatedCandles(hd.startTime, hd.endTime))
       IN IF Len(klines) = 0
          THEN hd' = [hd EXCEPT !.pc = "returned", !.pages = pages]
          ELSE hd' = [hd EXCEPT !.pages = pages, !.allKlines = allKlines,
                                !.onProgress = Append(@,
                                    [progress |-> progress,
                                     processedCandles |-> Len(allKlines)]),
                                !.currentStartTime = NextStartTime(klines)]
    /\ UNCHANGED ovars

\* getKlines throws the 429 HttpException: sleep(60000), continue
GetKlinesRateLimited ==
    /\ InLoop
    /\ hd.limited < MaxRateLimits
    /\ hd' = [hd EXCEPT !.limited = @ + 1]
    /\ UNCHANGED ovars

\* getKlines throws another error: getHistoricalData rethrows it
GetKlinesThrows ==
    /\ InLoop
    /\ hd' = [hd EXCEPT !.pc = "failed"]
    /\ UNCHANGED ovars

\* the loop condition is false: return allKlines
WhileExit ==
    /\ hd.pc = "loop"
    /\ hd.currentStartTime >= hd.endTime
    /\ hd' = [hd EXCEPT !.pc = "returned"]
    /\ UNCHANGED ovars

NextPages ==
    \/ GetKlinesReturns
    \/ GetKlinesRateLimited
    \/ GetKlinesThrows
    \/ WhileExit

SpecPages == InitPages /\ [][NextPages]_vars

----------------------------------------------------------------------------
(* Specification of one saveCandles call whose batch writes may fail *)

InitBatch ==
    /\ sb \in {NewBatchedSave(r, k) : r \in Rows, k \in KlineInputs}
    /\ hd = NoHistoricalData
    /\ binance = NewBinance(DefaultWeightLimit, "any")
    /\ fetchers = [f \in Fetchers |-> IdleFetcher]
    /\ sv = NoSave
    /\ rin = [processor |-> "subranges", requestedStart |-> 1, requestedEnd |-> 2,
              stored |-> {}, hasRecord |-> FALSE, now |-> MaxTime]
    /\ rout = NotComputed
    /\ registered = "subranges"
    /\ jobs = [j \in JobIds |-> NoJob]
    /\ calls = [c \in JobIds |-> IdleCall]
    /\ cancels = [j \in JobIds |-> IdleCancel]
    /\ queue = {}
    /\ wk = [j \in JobIds |-> IdleWorker]
    /\ inflight = [j \in JobIds |-> {}]
    /\ candleModel = {}
    /\ extent = InitialExtent({})
    /\ emitted = [j \in JobIds |-> NoEvent]
    /\ stats = [j \in JobIds |-> NoStats]

\* the state outside the saveCandles call
bvars == <<registered, jobs, calls, cancels, queue, wk, inflight, candleModel,
           extent, emitted, stats, rin, rout, sv, fvars, hd>>

\* processSingleBatch returns: the results are added, next batch or return
BatchWritten ==
    /\ sb.pc = "batch"
    /\ LET done == ProcessSingleBatch(sb.rows, BatchSlice(sb.klines, sb.batchIndex))
           last == sb.batchIndex + 1 = TotalBatches(sb.klines)
       IN sb' = [sb EXCEPT
                   !.rows = done.rows,
                   !.attempts = IF last
                                THEN [@ EXCEPT ![sb.batchIndex + 1] = @ + 1]
                                ELSE Append([@ EXCEPT ![sb.batchIndex + 1] = @ + 1], 0),
                   !.total = [newRecords |-> @.newRecords + done.result.newRecords,
                              updatedRecords |->
                                  @.updatedRecords + done.result.updatedRecords,
                              totalProcessed |->
                                  @.totalProcessed + done.result.totalProcessed],
                   !.batchIndex = IF last THEN @ ELSE @ + 1,
                   !.attempt = IF last THEN @ ELSE 1,
                   !.pc = IF last THEN "returned" ELSE "batch"]
    /\ UNCHANGED bvars

\* bulkWrite throws after applying the operations `kept` (ordered: false):
\* another attempt after the backoff sleep, or the error leaves saveCandles
BatchWriteFails(kept) ==
    /\ sb.pc = "batch"
    /\ LET batch == BatchSlice(sb.klines, sb.batchIndex)
       IN /\ kept \in SUBSET (1..Len(batch))
          /\ kept # 1..Len(batch)
          /\ sb' = [sb EXCEPT
                      !.rows = BulkWrite(@, Applied(batch, kept, 1), 0, 0).rows,
                      !.attempts[sb.batchIndex + 1] = @ + 1,
                      !.attempt = IF MayRetry(sb.attempt) THEN @ + 1 ELSE @,
                      !.pc = IF MayRetry(sb.attempt) THEN "batch" ELSE "thrown"]
    /\ UNCHANGED bvars

NextBatch ==
    \/ BatchWritten
    \/ \E kept \in SUBSET (1..BatchSize) : BatchWriteFails(kept)

SpecBatch == InitBatch /\ [][NextBatch]_vars

----------------------------------------------------------------------------
(* Claims about getHistoricalData (SpecPages) *)

\* the pages received so far that carry candles
NonEmptyPages == {k \in 1..Len(hd.pages) : Len(hd.pages[k].klines) > 0}

\* C24: the pages of one getHistoricalData call are asked for with strictly
\* increasing start times, each the close time of the last candle of the page
\* before plus one; an empty page is the last page and no page is asked for
\* from a start time at or past the end; onProgress has been called once per
\* page that carried candles, with a percentage of at most 100 and a candle
\* count that never decreases; the candles returned ascend strictly by open time.
C24_PagesAdvance ==
    /\ \A k \in 1..Len(hd.pages) :
          /\ hd.pages[k].startTime < hd.endTime
          /\ k < Len(hd.pages)
                 => /\ Len(hd.pages[k].klines) > 0
                    /\ hd.pages[k + 1].startTime > hd.pages[k].startTime
                    /\ hd.pages[k + 1].startTime
                           = CloseTime(hd.pages[k].klines[Len(hd.pages[k].klines)]) + 1
    /\ (Len(hd.pages) > 0 /\ Len(hd.pages[Len(hd.pages)].klines) = 0)
           => hd.pc = "returned"
    /\ Len(hd.onProgress) = Cardinality(NonEmptyPages)
    /\ \A k \in 1..Len(hd.onProgress) :
          /\ hd.onProgress[k].progress <= 100
          /\ k > 1 => hd.onProgress[k].processedCandles
                          >= hd.onProgress[k - 1].processedCandles
    /\ \A a, b \in 1..Len(hd.allKlines) : a < b => hd.allKlines[a] < hd.allKlines[b]
    /\ hd.pc = "returned"
           => \/ hd.currentStartTime >= hd.endTime
              \/ Len(hd.pages[Len(hd.pages)].klines) = 0

\* C24 witness: a call has returned after two pages with candles, a 429 among
\* its requests, three candles in all
C24_Witness ==
    /\ hd.pc = "returned"
    /\ Cardinality(NonEmptyPages) >= 2
    /\ hd.limited > 0
    /\ Len(hd.allKlines) = 3

----------------------------------------------------------------------------
(* Claims about the range computation (SpecRanges) *)

\* the last / first candle open time a range [start, end] covers
LastSlotUpTo(t) == SetMax({u \in 0..Max(t, 0) : u % Interval = 0 /\ u <= t} \cup {0})
FirstSlotFrom(t) == SetMin({u \in t..(t + Interval) : u % Interval = 0})

NoStoredData(i) == ~i.hasRecord \/ i.stored = {}

Contiguous(stored) ==
    stored # {} /\ \A t \in Slots : (SetMin(stored) <= t /\ t <= SetMax(stored)) => t \in stored

\* adjacent stored candles inside [lo, hi] are at most 2 intervals apart
NoGapOver2(stored, lo, hi) ==
    \A a, b \in stored :
        (lo <= a /\ a < b /\ b <= hi /\ b - a > 2 * Interval)
            => \E c \in stored : a < c /\ c < b

\* C7: with no stored data (no extent record, or earliest and latest both
\* null) the job's range computation yields exactly one range, the request.
C7_NoData_OneFullRange ==
    (rout.computed /\ NoStoredData(rin))
        => rout.ranges = <<[start |-> rin.requestedStart, end |-> rin.requestedEnd]>>

C8_Case(i) ==
    /\ i.hasRecord /\ Contiguous(i.stored)
    /\ i.requestedStart < SetMin(i.stored)
    /\ i.requestedEnd > SetMax(i.stored)

\* C8: extent [E, L] without interior gaps, request [S, R] with S < E and
\* R > L: exactly two ranges, the first from S up to the candle one interval
\* before E (the candle at E excluded), the second from the candle one
\* interval after L (the candle at L excluded) up to R.
C8_BeforeAndAfter ==
    (rout.computed /\ C8_Case(rin)) =>
        LET E == SetMin(rin.stored)
            L == SetMax(rin.stored)
            r == rout.ranges
        IN /\ Len(r) = 2
           /\ r[1].start = rin.requestedStart
           /\ r[1].end < E
           /\ LastSlotUpTo(r[1].end) = E - Interval
           /\ r[2].start > L
           /\ FirstSlotFrom(r[2].start) = L + Interval
           /\ r[2].end = rin.requestedEnd

C8_Witness ==
    /\ rout.computed /\ C8_Case(rin) /\ Len(rout.ranges) = 2
    /\ rin.processor = "gaps" /\ Cardinality(rin.stored) >= 2

C9_Case(i) ==
    /\ i.hasRecord /\ i.stored # {}
    /\ SetMin(i.stored) <= i.requestedStart
    /\ i.requestedEnd <= SetMax(i.stored)
    /\ i.requestedStart \in i.stored
    /\ NoGapOver2(i.stored, i.requestedStart, i.requestedEnd)

\* C9: request inside the stored extent, no gap over 2 intervals among the
\* stored candles of [S, R], a candle stored at S: zero ranges, whatever the
\* current time is.
C9_Covered_NoRanges ==
    (rout.computed /\ C9_Case(rin)) => rout.ranges = <<>>

\* the overlap of the request with the stored extent
OverlapStart(i) == Max(i.requestedStart, SetMin(i.stored))
OverlapEnd(i) == Min(i.requestedEnd, SetMax(i.stored))

\* a and b are stored candles inside the overlap with no stored candle between
AdjacentInOverlap(i, a, b) ==
    /\ a \in i.stored /\ b \in i.stored /\ a < b
    /\ OverlapStart(i) <= a /\ b <= OverlapEnd(i)
    /\ ~\E c \in i.stored : a < c /\ c < b

\* the ranges returned that lie between the candles a and b
RangesBetween(ranges, a, b) ==
    {k \in 1..Len(ranges) : a < ranges[k].start /\ ranges[k].end < b}

\* C29: in the ranges computed for a request that overlaps the stored extent,
\* each pair of adjacent stored candles inside the overlap more than two
\* intervals apart has exactly one range lying between its two candles, and a
\* pair at most two intervals apart has none, whatever the current time.
C29_InteriorGaps ==
    (rout.computed /\ rin.stored # {} /\ OverlapStart(rin) < OverlapEnd(rin))
        => \A a, b \in rin.stored :
               AdjacentInOverlap(rin, a, b)
                   => Cardinality(RangesBetween(rout.ranges, a, b))
                          = (IF b - a > 2 * Interval THEN 1 ELSE 0)

\* the request lies inside the stored extent and the steps before the sample
\* check produced no range (inside the extent only the gap scan can produce one)
C30_Case(i) ==
    /\ i.stored # {}
    /\ SetMin(i.stored) <= i.requestedStart
    /\ i.requestedEnd <= SetMax(i.stored)
    /\ FindGapsInRange(i.stored, i.requestedStart, i.requestedEnd, i.now) = <<>>

\* the sample query: a stored candle with requestedStart <= openTime <=
\* requestedStart + interval
SampleFound(i) ==
    \E t \in i.stored :
        i.requestedStart <= t /\ t <= i.requestedStart + Interval

\* C30: request inside the stored extent and no range from the earlier steps:
\* the computation returns the one range [requestedStart, requestedEnd] when
\* the sample query finds no candle, and no range when it finds one.
C30_SampleVerification ==
    (rout.computed /\ C30_Case(rin))
        => rout.ranges = (IF SampleFound(rin) THEN <<>>
                          ELSE <<[start |-> rin.requestedStart,
                                  end |-> rin.requestedEnd]>>)

\* C30 witness: the sample query found nothing and the whole request is returned
C30_Witness ==
    /\ rout.computed
    /\ C30_Case(rin)
    /\ ~SampleFound(rin)
    /\ Len(rout.ranges) = 1

\* C33: every range the range computation produces has start <= end and lies
\* inside the requested window [requestedStart, requestedEnd], for every stored
\* extent (before, after or overlapping the window)
C33_RangesInsideWindow ==
    rout.computed =>
        \A k \in 1..Len(rout.ranges) :
            /\ rout.ranges[k].start <= rout.ranges[k].end
            /\ rin.requestedStart <= rout.ranges[k].start
            /\ rout.ranges[k].end <= rin.requestedEnd

\* the instants of the range [start, end], both ends included
Instants(range) == {t \in 0..(MaxTime + 1) : range.start <= t /\ t <= range.end}

\* C11: the ranges one range computation returns are pairwise disjoint: no
\* instant belongs to two of them, whatever the window and the stored extent.
C11_RangesPairwiseDisjoint ==
    rout.computed =>
        \A a, b \in 1..Len(rout.ranges) :
            a # b => Instants(rout.ranges[a]) \cap Instants(rout.ranges[b]) = {}

----------------------------------------------------------------------------
(* Claims about saveCandles (SpecSave) *)

DistinctKeys(klines) ==
    \A a, b \in 1..Len(klines) : a # b => klines[a].openTime # klines[b].openTime

\* C6: saving the same candles twice leaves the rows of the first save in
\* place, one row per open time, and the second save reports newRecords 0
\* and updatedRecords equal to the number of candles.
C6_SecondSaveIdempotent ==
    (Len(sv.results) = 2 /\ DistinctKeys(sv.klines)) =>
        /\ sv.rowsAfter[2] = sv.rowsAfter[1]
        /\ sv.results[2].newRecords = 0
        /\ sv.results[2].updatedRecords = Len(sv.klines)

\* the candles of the input whose key is, or is not, among the rows stored
KeysStored(rows, klines, stored) ==
    Cardinality({i \in 1..Len(klines) : (klines[i].openTime \in DOMAIN rows) = stored})

\* C16: a saveCandles call on candles with distinct keys reports as newRecords
\* the number of its keys absent from storage before the call and as
\* updatedRecords the number of its keys stored before the call, over all batches.
C16_BatchAccounting ==
    [][(DistinctKeys(sv.klines) /\ Len(sv'.results) = Len(sv.results) + 1)
          => LET result == sv'.results[Len(sv'.results)]
             IN /\ result.newRecords = KeysStored(sv.rows, sv.klines, FALSE)
                /\ result.updatedRecords = KeysStored(sv.rows, sv.klines, TRUE)]_vars

----------------------------------------------------------------------------
(* Claims about the batch retries of saveCandles (SpecBatch) *)

\* C26: no batch of a saveCandles call is attempted more than SaveMaxRetries
\* times; when the call has thrown, its current batch was attempted
\* SaveMaxRetries times, no batch after it was attempted, and every candle of
\* the batches before it has its row in storage (with the candle's values when
\* the keys of the input are distinct).
C26_BatchRetriesBounded ==
    /\ \A b \in 1..Len(sb.attempts) : sb.attempts[b] <= SaveMaxRetries
    /\ sb.pc = "thrown"
           => /\ sb.attempts[sb.batchIndex + 1] = SaveMaxRetries
              /\ Len(sb.attempts) = sb.batchIndex + 1
              /\ \A i \in 1..(sb.batchIndex * BatchSize) :
                    /\ sb.klines[i].openTime \in DOMAIN sb.rows
                    /\ DistinctKeys(sb.klines)
                           => sb.rows[sb.klines[i].openTime] = sb.klines[i].price

\* C26 witness: the second batch failed three times after the first was written
C26_Witness ==
    /\ sb.pc = "thrown"
    /\ sb.batchIndex = 1
    /\ sb.attempts = <<1, SaveMaxRetries>>
    /\ DistinctKeys(sb.klines)

----------------------------------------------------------------------------
(* Claims about the job life cycle (Spec) *)

\* C1: a job whose status is COMPLETED, FAILED or CANCELLED keeps that status
\* in every step, whichever of markJobAsStarted, updateJobProgress,
\* markJobAsCompleted, markJobAsFailed and cancelJob runs next.
C1_TerminalStatusFinal ==
    [][\A j \in JobIds :
          Terminal(jobs[j]) => jobs'[j].status = jobs[j].status]_vars

\* C2: at most one job of the pair is PENDING or RUNNING, however the checks
\* and inserts of concurrent createDownloadJob calls interleave.
C2_AtMostOneActive ==
    Cardinality({j \in JobIds : Active(jobs[j])}) <= 1

\* C3: once cancelJob has been called on a running job after a range was
\* saved and before the next range starts, the worker sends no further
\* upstream request for the job, the job ends with the status CANCELLED, and
\* the candles saved before remain stored.
C3_CancelBetweenRangesStops ==
    \A j \in JobIds :
        (cancels[j].pc \in {"done", "failed"} /\ cancels[j].atBoundary) =>
            /\ stats[j].requests = cancels[j].requests
            /\ wk[j].pc = "done" => jobs[j].status = "CANCELLED"
            /\ cancels[j].stored \subseteq candleModel

\* C4: the progress values of the successive events of one run of a job
\* never decrease.
C4_EventProgressNonDecreasing ==
    [][\A j \in JobIds :
          (/\ emitted'[j] # emitted[j]
           /\ emitted'[j].run = emitted[j].run
           /\ emitted[j].progress # NULL
           /\ emitted'[j].progress # NULL)
              => emitted'[j].progress >= emitted[j].progress]_vars

\* C5: every progress value on a job record, in a progress write on its way
\* to the record, and in an event lies in 0..100.
C5_ProgressWithinBounds ==
    \A j \in JobIds :
        /\ jobs[j].progress \in 0..100
        /\ \A w \in inflight[j] : w.progress \in 0..100
        /\ emitted[j].progress # NULL => emitted[j].progress \in 0..100

\* the range list of the job is empty for some current time
EmptyRangeList(j) ==
    \E now \in Nows :
        JobRanges(registered, jobs[j].startDate, jobs[j].endDate, extent,
                  candleModel, now) = <<>>

\* C10: the step that ends the analysis of a job with an empty range list
\* sets the status COMPLETED, totalCandles 0 and progress 100, and makes no
\* upstream request and no candle write; no request or write of the run comes
\* before the analysis, and a non-empty list never takes this path.
C10_EmptyListCompletesAtOnce ==
    /\ [][\A j \in JobIds :
            (wk[j].pc = "analyze" /\ wk'[j].pc # "analyze") =>
                IF wk'[j].pc = "done"
                THEN /\ EmptyRangeList(j)
                     /\ jobs'[j].status = "COMPLETED"
                     /\ jobs'[j].totalCandles = 0
                     /\ jobs'[j].progress = 100
                     /\ stats' = stats
                     /\ candleModel' = candleModel
                     /\ extent' = extent
                ELSE /\ wk'[j].pc = "rangeStart"
                     /\ wk'[j].ranges # <<>>]_vars
    /\ [](\A j \in JobIds :
            (wk[j].pc = "analyze" /\ wk[j].run = 1) => stats[j] = NoStats)

\* a job delivered once has completed on the empty range list
C10_Witness ==
    \E j \in JobIds :
        /\ wk[j].pc = "done" /\ wk[j].run = 1
        /\ emitted[j].status = "completed"
        /\ emitted[j].processedCandles = NULL
        /\ jobs[j].status = "COMPLETED"
        /\ jobs[j].totalCandles = 0 /\ jobs[j].progress = 100
        /\ stats[j] = NoStats
        /\ candleModel # {}

\* the last run of handleDownload for job j ended in its catch block
RunFailed(j) ==
    /\ wk[j].pc = "done"
    /\ emitted[j].status = "failed"
    /\ emitted[j].run = wk[j].run

\* C14: when the fetch or the save of a range throws, the step that handles it
\* leaves the job FAILED with the error's message on the record and leaves the
\* stored candles as they were; from then on that run asks for no further page
\* and saves no further range.
C14_FailureAbortsRemainingRanges ==
    [][\A j \in JobIds :
          /\ (Processing(j) /\ RunFailed(j)')
                 => /\ jobs'[j].status = "FAILED"
                    /\ jobs'[j].error \in {"fetch", "save"}
                    /\ candleModel' = candleModel
                    /\ stats'[j] \in {stats[j],
                                      [stats[j] EXCEPT !.requests = @ + 1]}
                    /\ stats'[j].saves = stats[j].saves
          /\ RunFailed(j) => stats'[j] = stats[j]]_vars

\* C14 witness: a run failed after it had saved an earlier range, and the
\* candles of that range are in storage
C14_Witness ==
    \E j \in JobIds :
        /\ RunFailed(j)
        /\ wk[j].run = 1
        /\ registered = "subranges"
        /\ stats[j].saves > 0
        /\ candleModel # {}
        /\ jobs[j].status = "FAILED"

\* C15: the step that marks a job FAILED changes nothing of its record but the
\* status and the error message: the record stays in the collection and its
\* progress, processedCandles, totalCandles and window are those of the state before.
C15_FailedMarkKeepsProgress ==
    [][\A j \in JobIds :
          (Processing(j) /\ RunFailed(j)')
              => /\ jobs'[j].status # "NONE"
                 /\ jobs'[j] = [jobs[j] EXCEPT !.status = jobs'[j].status,
                                               !.error = jobs'[j].error]
                 /\ jobs'[j].progress = jobs[j].progress
                 /\ jobs'[j].processedCandles = jobs[j].processedCandles]_vars

\* C15 witness: a job marked FAILED whose record still shows the progress and
\* the candle count written while it ran
C15_Witness ==
    \E j \in JobIds :
        /\ RunFailed(j)
        /\ jobs[j].status = "FAILED"
        /\ jobs[j].progress > 0
        /\ jobs[j].processedCandles > 0

\* C17: every step that leaves a job COMPLETED leaves its progress at 100; the
\* step that completes it stores the number of candles fetched over its ranges
\* as totalCandles, and no step taken while it is COMPLETED changes that number.
C17_CompletedRecordFinal ==
    [][\A j \in JobIds :
          jobs'[j].status = "COMPLETED"
              => /\ jobs'[j].progress = 100
                 /\ jobs[j].status = "COMPLETED"
                        => jobs'[j].totalCandles = jobs[j].totalCandles
                 /\ (jobs[j].status # "COMPLETED" /\ wk[j].pc = "complete")
                        => jobs'[j].totalCandles = FinalCount(j)]_vars

\* C34: the processedCandles written to the job record and carried by the job's
\* events never decreases during a run, across pages and across ranges, and the
\* totalCandles stored at completion is at least the last processedCandles
\* written
C34_ProcessedCandlesNonDecreasing ==
    [][\A j \in JobIds :
          /\ jobs'[j].processedCandles >= jobs[j].processedCandles
          /\ (/\ emitted'[j].run = emitted[j].run
              /\ emitted[j].processedCandles # NULL
              /\ emitted'[j].processedCandles # NULL)
                 => emitted'[j].processedCandles >= emitted[j].processedCandles
          /\ (jobs[j].status # "COMPLETED" /\ jobs'[j].status = "COMPLETED")
                 => jobs'[j].totalCandles >= jobs[j].processedCandles]_vars

\* the candles a run holds in memory from the ranges before the one it is at:
\* the buffer of the gap-aware processor, and the page list of the range just
\* finished until the next getHistoricalData call replaces it
FetchedForEarlierRanges(j) ==
    SeqSet(wk[j].allKlines)
        \cup (IF wk[j].pc = "rangeStart" THEN SeqSet(wk[j].klines) ELSE {})

\* C25: when a run is at a range after the first for which requests will be
\* sent, at its start or in its page loop, the candles it fetched for the
\* ranges before are in storage.
C25_SavedBeforeNextRange ==
    \A j \in JobIds :
        (/\ wk[j].pc \in {"rangeStart", "fetch"}
         /\ wk[j].i > 1
         /\ CurrentRange(j).start < CurrentRange(j).end)
            => FetchedForEarlierRanges(j) \subseteq candleModel

\* C27: a run of handleDownload that has ended without a fetch or a save
\* failing has left its job COMPLETED, whatever the publishes did.
C27_PublishFailureHarmless ==
    \A j \in JobIds :
        (wk[j].pc = "done" /\ jobs[j].error \notin {"fetch", "save"})
            => jobs[j].status = "COMPLETED"

\* C28: while handleDownload works on a job (from the read of the stored
\* extent on) and once a request or a save has been made for it, the job has
\* been marked RUNNING: its status is never PENDING, and while the run lasts
\* it is RUNNING unless a cancelJob call has written CANCELLED.
C28_RunningBeforeWork ==
    \A j \in JobIds :
        /\ Processing(j) => jobs[j].status \in {"RUNNING", "CANCELLED"}
        /\ (stats[j].requests > 0 \/ stats[j].saves > 0)
               => jobs[j].status \notin {"NONE", "PENDING"}

\* C28 witness: a run has read the extent, sent a request and saved a range
\* of a job that is RUNNING
C28_Witness ==
    \E j \in JobIds :
        /\ Processing(j)
        /\ wk[j].pc = "rangeStart"
        /\ stats[j].requests > 0
        /\ stats[j].saves > 0
        /\ jobs[j].status = "RUNNING"

----------------------------------------------------------------------------
(* Claims about the BinanceService (SpecFetch) *)

\* C12: when the tracked weight had reached the limit within the current window
\* at the time checkWeightLimit was called, the call has not returned, and the
\* request of that attempt has not been sent, before the reset time of that
\* window (its start plus the window length); on first attempts and on retries.
C12_LimitBlocksUntilReset ==
    \A f \in Fetchers :
        (fetchers[f].limitAtCall /\ fetchers[f].pc \in {"send", "waiting"})
            => binance.now >= fetchers[f].notBefore

\* C12 witness: a retry found the weight at the limit and its request has been sent
C12_Witness ==
    \E f \in Fetchers :
        /\ fetchers[f].limitAtCall
        /\ fetchers[f].pc = "waiting"
        /\ fetchers[f].attempt >= 2
        /\ fetchers[f].notBefore > 0

\* C13: against an upstream that answers every request with HTTP 429 a range
\* fetch sends at most MaxRetries requests (the attempts of one page fetch) and,
\* having been answered that often, has ended with an error.
C13_Always429EndsWithError ==
    binance.upstream = "always429" =>
        \A f \in Fetchers :
            /\ fetchers[f].requests <= MaxRetries
            /\ (fetchers[f].requests = MaxRetries /\ fetchers[f].pc # "waiting")
                   => fetchers[f].pc = "failed"

\* C18: the step in which checkWeightLimit(cost) returns leaves the weight
\* counter at the value the reservation was admitted against plus cost.
C18_ReserveDebitsCost ==
    [][\A f \in Fetchers :
          (fetchers[f].pc \in {"check", "sleepWeight"} /\ fetchers'[f].pc = "send")
              => binance'.currentWeight = fetchers'[f].admitted + KlinesCost]_vars

C20_WindowReset ==
    [][\A f \in Fetchers :
          LET expired == binance.now - binance.weightResetTime >= Window
              observes == \E header \in UsedWeightHeaders : ResponseOk(f, header)
          IN /\ (CheckWeightLimit(f) /\ expired)
                    => /\ binance'.weightResetTime = binance.now
                       /\ binance'.currentWeight = 0
                       /\ (fetchers'[f].pc = "send") = (KlinesCost < binance.weightLimit)
             /\ (observes /\ expired) => binance'.weightResetTime = binance.now
             /\ ((CheckWeightLimit(f) \/ observes) /\ ~expired)
                    => binance'.weightResetTime = binance.weightResetTime]_vars

\* C20 witness: no fetch has slept yet, so the window start past the first
\* window was set by the reset of a reservation or of an observation
C20_Witness ==
    /\ binance.weightResetTime >= Window
    /\ \A g \in Fetchers : fetchers[g].wakeAt = 0
    /\ \E f \in Fetchers : fetchers[f].calls > 0 /\ fetchers[f].pc \in {"send", "idle"}

\* C21: a checkWeightLimit call whose cost alone reaches the limit starts a
\* wait of exactly one window length.
C21_OversizedWaitsOneWindow ==
    [][\A f \in Fetchers :
          (CheckWeightLimit(f) /\ KlinesCost >= binance.weightLimit)
              => /\ fetchers'[f].pc = "sleepWeight"
                 /\ fetchers'[f].wakeAt = binance.now + Window]_vars

\* C22: a caller that wakes from the wait of checkWeightLimit while a window
\* opened by another caller is in progress leaves the usage reported for that
\* window in the counter.
C22_WakeKeepsReportedUsage ==
    [][\A f \in Fetchers :
          (WakeWeight(f) /\ ~WindowExpired(binance.now, binance.weightResetTime))
              => binance'.currentWeight = binance.currentWeight]_vars

\* C23: within a page fetch an error that is neither a 429 nor a connection
\* reset or timeout ends the fetch at once; a connection reset or timeout on
\* an attempt before the last is followed by a wait of base * 2^attempt and
\* the next attempt; a 429 on an attempt before the last is followed by a
\* wait of base * 2^attempt plus one window length.
C23_RetryPolicy ==
    [][\A f \in Fetchers :
          LET attempt == fetchers[f].attempt
          IN /\ ResponseOtherError(f) => fetchers'[f].pc = "failed"
             /\ (ResponseNetworkError(f) /\ attempt < MaxRetries)
                    => /\ fetchers'[f].pc = "sleepRetry"
                       /\ fetchers'[f].wakeAt = binance.now + RetryDelay(attempt)
             /\ (ResponseRateLimited(f) /\ attempt < MaxRetries)
                    => fetchers'[f].wakeAt
                           = binance.now + RetryDelay(attempt) + Window]_vars

----------------------------------------------------------------------------
(* Claims about updateSymbolMetadata (SpecMeta) *)

\* the extent of the rows: minimum and maximum open time, number of rows
ExtentOfRows(stored, total) ==
    [earliestData |-> SetMin(stored), latestData |-> SetMax(stored),
     totalCandles |-> total]

\* C31: after a save that reports N new records the extent record is untouched
\* when N = 0, gets earliest and latest re-read and totalCandles increased by N
\* when 0 < N <= threshold, and is recomputed from the stored rows (minimum,
\* maximum, count) when N > threshold
C31_MetadataUpdateByCount ==
    rout.computed =>
        LET N == Cardinality(SeqSet(rin.klines) \ rin.stored)
        IN /\ rout.newRecords = N
           /\ rout.stored = rin.stored \cup SeqSet(rin.klines)
           /\ (N = 0) => rout.extent = rin.ext
           /\ (0 < N /\ N <= RecalcThreshold) =>
                 rout.extent = ExtentOfRows(rout.stored, rin.ext.totalCandles + N)
           /\ (N > RecalcThreshold) =>
                 rout.extent = ExtentOfRows(rout.stored, Cardinality(rout.stored))

\* a save of more new records than the threshold onto a record that lags behind
\* the rows: the recomputation counts the rows, the increment would not
C31_Witness ==
    /\ rout.computed
    /\ rout.newRecords > RecalcThreshold
    /\ rin.ext.totalCandles + rout.newRecords # Cardinality(rout.stored)
    /\ rout.extent.totalCandles = Cardinality(rout.stored)

----------------------------------------------------------------------------
(* Claims about the end of a run (SpecLive) *)

\* C32: every job a worker has picked up eventually reaches COMPLETED, FAILED or
\* CANCELLED, whatever the exchange answers (an exchange that keeps answering
\* HTTP 429 included) and whatever storage does
C32_PickedUpJobEnds ==
    \A j \in JobIds : (jobs[j].status = "RUNNING") ~> Terminal(jobs[j])

----------------------------------------------------------------------------
(* Claims about the extent record after a run (SpecRun) *)

\* C35: once a job has completed, the extent record agrees with storage
\* (earliestData and latestData are the minimum and maximum stored open time,
\* totalCandles is the number of stored rows), and no job is failed by a failure
\* inside the extent update
C35_ExtentAgreesWithStorage ==
    /\ (\E j \in JobIds : jobs[j].status = "COMPLETED") =>
          IF candleModel = {}
          THEN extent.totalCandles = 0
          ELSE extent = ExtentOfRows(candleModel, Cardinality(candleModel))
    /\ \A j \in JobIds : jobs[j].status = "FAILED" => jobs[j].error # "metadata"

----------------------------------------------------------------------------
(* Claims about getCandles (SpecRead) *)

RECURSIVE AllData(_)
\* the candles of the pages, in the order read
AllData(pages) ==
    IF pages = <<>> THEN <<>> ELSE Head(pages).data \o AllData(Tail(pages))

\* the stored open times of the window, ascending
WindowCandles(i) == SortedSeq({t \in i.stored : i.startTime <= t /\ t <= i.endTime})

\* C36: reading a window with getCandles along the returned cursor until
\* hasNext is false yields every stored candle of the window exactly once, in
\* ascending open time order, at most limit candles per page; the cursor of a
\* page is null exactly when its hasNext is false
C36_CursorReadsWindowOnce ==
    LET read == AllData(rout.pages)
        all == WindowCandles(rin)
        limit == IF rin.limit = 0 THEN DefaultLimit ELSE rin.limit
    IN /\ Len(read) <= Len(all)
       /\ read = SubSeq(all, 1, Len(read))
       /\ rout.computed => read = all
       /\ \A k \in 1..Len(rout.pages) :
             /\ Len(rout.pages[k].data) <= limit
             /\ (rout.pages[k].cursor = NULL) <=> ~rout.pages[k].hasNext

\* a read of three pages that returned all the candles of a window holding more
\* candles than two pages take
C36_Witness ==
    /\ rout.computed
    /\ Len(rout.pages) = 3
    /\ Len(AllData(rout.pages)) > 2
    /\ AllData(rout.pages) = WindowCandles(rin)

====
